---- MODULE Spec2Model ----
(***************************************************************************)
(* nostr-badges: badge acceptance (recipient_acceptance.py) and the        *)
(* multi-relay publish/verify engine (relay_manager.py).                   *)
(*                                                                         *)
(* Strings are sequences of one-character strings, so that startswith,     *)
(* split, len and the hex test are computed as the code computes them.     *)
(* The state holds short names of strings (StrOf gives their characters);  *)
(* two names are equal exactly when their strings are.                     *)
(***************************************************************************)
EXTENDS Integers, Sequences, FiniteSets, TLC

VARIABLES
    now,        \* int(time.time()): the clock in whole seconds
    mclock,     \* the st_mtime the filesystem gave to the last file written
    store,      \* badge_backups/: the set of snapshot files
    mE,         \* merge_badge_pairs: the existing_pairs argument
    mP,         \* merge_badge_pairs: the new_pair argument
    mres,       \* merge_badge_pairs: what the call returned (NoRes before it)
    relays,     \* relay_urls: the ordered endpoint list (fixed)
    relayRec,   \* per relay, its copy of the owner's kind 30008 record
    pc,         \* accept_badge: where the call is
    ops,        \* the number of calls made so far
    run,        \* accept_badge: the locals of the current call and what it returns
    results,    \* RelayManager.results
    shown,      \* the pairs of the records that calls returning success published
    wlog        \* Backup Store: the create_backup calls made on it, in order

mergeVars == <<mE, mP, mres>>
acceptVars == <<relays, relayRec, pc, ops, run, results, shown>>
storeVars == <<wlog>>
vars == <<now, mclock, store, mE, mP, mres, relays, relayRec, pc, ops, run, results, shown, wlog>>

----------------------------------------------------------------------------
(* Bounds of the model *)

MaxLen == 3         \* longest existing pair list handed to merge_badge_pairs
MaxOps == 2         \* calls (accept_badge, create_backup) in one behaviour
MaxWrites == 6      \* create_backup calls on the Backup Store alone
MaxFrames == 2      \* frames a relay sends after the EVENT frame, before the REQ
MaxAnswer == 2      \* frames a relay sends in answer to the REQ of a query
MaxSessionFrames == 3   \* frames after the EVENT frame, one relay on its own
TicksPerSecond == 2     \* clock ticks in a second
MaxBurst == 2           \* frames that arrive with no tick between them
MaxSurplus == 2         \* snapshots beyond max_backups in the directory

----------------------------------------------------------------------------
(* Program constants *)

HexLen == 64        \* len(pubkey_part) != 64, len(e_tag) != 64
MaxBackups == 5     \* self.max_backups
ProfileBadgesKind == 30008  \* "kind": 30008
DefinitionKind == 30009     \* "kind": 30009
ResponseWindow == 5 \* while time.time() - start_time < 5
ResponseRecvTimeout == 2    \* asyncio.wait_for(ws.recv(), timeout=2)
VerifyWindow == 4   \* while time.time() - start_time < 4
VerifyRecvTimeout == 1      \* asyncio.wait_for(ws.recv(), timeout=1)
FetchWindow == 4            \* while time.time() - start_time < 4
FetchRecvTimeout == 2       \* asyncio.wait_for(ws.recv(), timeout=2)
QueryWindow == 4            \* _query_relays_for_definition(..., timeout=4)
QueryRecvTimeoutTenths == 15    \* asyncio.wait_for(ws.recv(), timeout=1.5), in tenths

----------------------------------------------------------------------------
(* Strings *)

Rep(c, n) == [i \in 1..n |-> c]

HexDigits == {"0", "1", "2", "3", "4", "5", "6", "7", "8", "9",
              "a", "b", "c", "d", "e", "f"}

\* str.lower() on one character (the letters the sample strings use)
Lower(c) ==
    CASE c = "A" -> "a"
      [] c = "B" -> "b"
      [] c = "C" -> "c"
      [] c = "D" -> "d"
      [] c = "E" -> "e"
      [] c = "F" -> "f"
      [] c = "G" -> "g"
      [] OTHER -> c

\* all(c in "0123456789abcdef" for c in s.lower())
AllHexLower(s) == \A i \in 1..Len(s) : Lower(s[i]) \in HexDigits

\* s.startswith(p)
StartsWith(s, p) == Len(s) >= Len(p) /\ SubSeq(s, 1, Len(p)) = p

\* the positions of sep in s, and the k-th of them (0 before the first part,
\* Len(s) + 1 after the last)
SepPositions(s, sep) == {i \in 1..Len(s) : s[i] = sep}

SepAt(s, sep, k) ==
    IF k = 0 THEN 0
    ELSE IF k > Cardinality(SepPositions(s, sep)) THEN Len(s) + 1
    ELSE CHOOSE i \in SepPositions(s, sep) :
            Cardinality({j \in SepPositions(s, sep) : j <= i}) = k

\* s.split(sep): the parts between consecutive separators
Split(s, sep) ==
    [k \in 1..(Cardinality(SepPositions(s, sep)) + 1) |->
        SubSeq(s, SepAt(s, sep, k - 1) + 1, SepAt(s, sep, k) - 1)]

KindPrefix == <<"3", "0", "0", "0", "9", ":">>     \* "30009:"

\* Python's None where a string is expected
NoneStr == <<"<None>">>

\* The strings the model uses, by name.
StrOf(n) ==
    CASE n = "A1"   -> KindPrefix \o Rep("a", HexLen) \o <<":", "w">>
      [] n = "A2"   -> KindPrefix \o Rep("a", HexLen) \o <<":", "x">>
      [] n = "Abad" -> <<"3", "0", "0", "0", "8", ":">> \o Rep("a", HexLen) \o <<":", "w">>
      [] n = "E1"   -> Rep("b", HexLen)
      [] n = "E2"   -> Rep("c", HexLen)
      [] n = "None" -> NoneStr
      [] n = "Aup"    -> KindPrefix \o Rep("A", HexLen) \o <<":", "w">>
      [] n = "Ashort" -> KindPrefix \o Rep("a", HexLen - 1) \o <<":", "w">>
      [] n = "Ag"     -> KindPrefix \o Rep("g", HexLen) \o <<":", "w">>
      [] n = "Anoid"  -> KindPrefix \o Rep("a", HexLen) \o <<":">>
      [] n = "A4"     -> KindPrefix \o Rep("a", HexLen) \o <<":", "w", ":", "x">>
      [] n = "Eup"    -> Rep("B", HexLen)
      [] n = "Eshort" -> Rep("b", HexLen - 1)
      [] n = "Elong"  -> Rep("b", HexLen + 1)
      [] n = "Eg"     -> Rep("g", HexLen)

----------------------------------------------------------------------------
(* validate_badge_pair, validate_badge_pairs *)

ValidPair == [ok |-> TRUE, err |-> "", raised |-> FALSE]
Invalid(msg) == [ok |-> FALSE, err |-> msg, raised |-> FALSE]
\* len(None) raises TypeError
Raised == [ok |-> FALSE, err |-> "TypeError", raised |-> TRUE]

ValidateStrings(a, e) ==
    IF ~StartsWith(a, KindPrefix) THEN Invalid("Invalid A-tag format")
    ELSE LET parts == Split(a, ":") IN
        IF Len(parts) # 3 THEN Invalid("Invalid A-tag structure")
        ELSE IF Len(parts[2]) # HexLen \/ ~AllHexLower(parts[2])
            THEN Invalid("Invalid pubkey in A-tag")
        ELSE IF parts[3] = <<>> THEN Invalid("Empty identifier in A-tag")
        ELSE IF e = NoneStr THEN Raised
        ELSE IF Len(e) # HexLen \/ ~AllHexLower(e) THEN Invalid("Invalid event ID")
        ELSE ValidPair

ANames == {"A1", "A2", "Abad", "Aup", "Ashort", "Ag", "Anoid", "A4"}
ENames == {"E1", "E2", "None", "Eup", "Eshort", "Elong", "Eg"}

\* A pair is <<a, e>>, two names. The verdict on every pair of names, computed
\* once from their characters.
PairVerdict == {<<p, ValidateStrings(StrOf(p[1]), StrOf(p[2]))>> : p \in ANames \X ENames}

\* validate_badge_pair(a_tag, e_tag)
ValidateBadgePair(p) == (CHOOSE r \in PairVerdict : r[1] = p)[2]

RECURSIVE ValidateFrom(_, _, _, _)
\* the loop of validate_badge_pairs from pair i on
ValidateFrom(pairs, i, valid, errs) ==
    IF i > Len(pairs)
    THEN [ok |-> errs = <<>>, err |-> errs, valid |-> valid, raised |-> FALSE]
    ELSE LET r == ValidateBadgePair(pairs[i]) IN
        IF r.raised THEN [ok |-> FALSE, err |-> <<"TypeError">>, valid |-> valid, raised |-> TRUE]
        ELSE IF r.ok THEN ValidateFrom(pairs, i + 1, Append(valid, pairs[i]), errs)
        ELSE ValidateFrom(pairs, i + 1, valid, Append(errs, <<i, r.err>>))

ValidateBadgePairs(pairs) == ValidateFrom(pairs, 1, <<>>, <<>>)

----------------------------------------------------------------------------
(* The Backup Store: create_backup, load_latest_backup, cleanup_old_backups *)

Owner == "recipient"        \* self.recipient_hex
OtherOwner == "other_recipient"     \* the recipient_hex of another manager

\* An event: what its id is the hash of.
NoEvent == [kind |-> 0, pubkey |-> "", created_at |-> 0, tags |-> <<>>]

\* ev.id, the hash of the event's content: equal exactly for equal contents
EventId(ev) == [tag |-> "sha256", of |-> ev]

\* backup_id = f"pre_merge_{int(time.time())}"
PreMergeId(t) == [tag |-> "pre_merge", of |-> [NoEvent EXCEPT !.created_at = t]]

\* event_id[:8]: the first 8 characters of a hash stand for the hash; those of
\* "pre_merge_<t>" are "pre_merg" whatever t is
Prefix8(id) == IF id.tag = "pre_merge" THEN [id EXCEPT !.of = NoEvent] ELSE id

PreMergePrefix == Prefix8(PreMergeId(0))

\* backup_file = profile_badges_{timestamp}_{event_id[:8]}.json
BackupFile(pairs, prefix, t, m) ==
    [key |-> <<t, prefix>>, mtime |-> m, pairs |-> pairs, owner |-> Owner]

\* open(backup_file, "w") replaces a file of the same name
PutFile(st, f) == {g \in st : g.key # f.key} \cup {f}

\* The filesystem stamps a file with its current time mc, in its own
\* granularity: that time has moved on since the last write, or it has not.
LaterMtime(st, mc) == IF \E f \in st : f.mtime = mc THEN mc + 1 ELSE mc

\* create_backup: the write fails (False is returned, nothing is written), or
\* the file is written, with the mtime of the last file written or a later one.
CreateBackup(st, mc, pairs, prefix, t) ==
    {[ok |-> FALSE, store |-> st, mclock |-> mc]}
    \cup {[ok |-> TRUE, store |-> PutFile(st, BackupFile(pairs, prefix, t, m)), mclock |-> m] :
            m \in {mc, LaterMtime(st, mc)}}

NoBackup == [some |-> FALSE, pairs |-> <<>>]

\* load_latest_backup: max(backup_files, key=st_mtime); files of equal mtime
\* come in directory order, so any of them may be the one returned
LoadLatestBackup(st) ==
    IF st = {} THEN {NoBackup}
    ELSE {[some |-> TRUE, pairs |-> f.pairs] :
            f \in {g \in st : \A h \in st : h.mtime <= g.mtime}}

\* `if backup_pairs:` is false for None and for an empty list
Truthy(b) == b.some /\ b.pairs # <<>>

\* cleanup_old_backups: sort by st_mtime, newest first, keep max_backups
CleanupOldBackups(st) ==
    IF Cardinality(st) <= MaxBackups THEN {st}
    ELSE {k \in SUBSET st :
            /\ Cardinality(k) = MaxBackups
            /\ \A f \in k : \A g \in st \ k : f.mtime >= g.mtime}

----------------------------------------------------------------------------
(* merge_badge_pairs *)

\* Faulty variant: Step 5 without the `key not in seen` test: nothing is removed
NoDedup(all) == all

\* Faulty variant: Step 4 as [new_pair] + existing_pairs: the new pair comes first
DedupNewFirst(all) ==
    IF all = <<>> THEN all ELSE <<all[Len(all)]>> \o SubSeq(all, 1, Len(all) - 1)

RECURSIVE DedupKeepsLast(_)
\* Faulty variant: Step 5 keeps the last of equal pairs, not the first
DedupKeepsLast(all) ==
    IF all = <<>> THEN <<>>
    ELSE IF \E j \in 2..Len(all) : all[j] = Head(all)
        THEN DedupKeepsLast(Tail(all))
        ELSE <<Head(all)>> \o DedupKeepsLast(Tail(all))

RECURSIVE DedupFrom(_, _, _)
\* Step 5: deduplicate while preserving order
DedupFrom(all, i, out) ==
    IF i > Len(all) THEN out
    ELSE IF \E j \in 1..Len(out) : out[j] = all[i]
        THEN DedupFrom(all, i + 1, out)
        ELSE DedupFrom(all, i + 1, Append(out, all[i]))

Dedup(all) == DedupFrom(all, 1, <<>>)

MergeResult(ok, err, pairs, st, mc) ==
    [ok |-> ok, err |-> err, pairs |-> pairs, store |-> st, mclock |-> mc]

\* except Exception: recover from the latest backup, else the existing pairs
MergeExcept(existing, st, mc) ==
    {IF Truthy(b)
        THEN MergeResult(FALSE, "Merge failed, recovered from backup", b.pairs, st, mc)
        ELSE MergeResult(FALSE, "Merge failed, no backup available", existing, st, mc) :
     b \in LoadLatestBackup(st)}

\* Step 1: validate the existing pairs, recover from the backup when invalid
MergeStep1(E, st) ==
    IF E = <<>> THEN {[raised |-> FALSE, existing |-> E]}
    ELSE LET v == ValidateBadgePairs(E) IN
        IF v.raised THEN {[raised |-> TRUE, existing |-> E]}
        ELSE IF ~v.ok
            THEN {[raised |-> FALSE, existing |-> IF Truthy(b) THEN b.pairs ELSE <<>>] :
                    b \in LoadLatestBackup(st)}
        ELSE {[raised |-> FALSE, existing |-> v.valid]}

\* Steps 4 to 7, after the pre-merge backup left the store as st
MergeCombine(existing, P, st, mc) ==
    LET deduped == Dedup(Append(existing, P))
        v == ValidateBadgePairs(deduped)
    IN  IF v.raised THEN MergeExcept(existing, st, mc)
        ELSE IF ~v.ok
            THEN {MergeResult(FALSE, "Merge validation failed", existing, st, mc)}
        ELSE IF Len(deduped) < Len(existing)
            THEN {MergeResult(FALSE, "Merge resulted in badge loss", existing, st, mc)}
        ELSE {MergeResult(TRUE, "", deduped, st, mc)}

\* Faulty variant: the pre-merge backup of Step 3 is written before the new
\* pair is validated
MergeFrom2BackupFirst(existing, P, st, mc, t) ==
    LET v == ValidateBadgePair(P)
        ws == IF existing # <<>> THEN CreateBackup(st, mc, existing, PreMergePrefix, t)
              ELSE {[ok |-> TRUE, store |-> st, mclock |-> mc]}
    IN  UNION {IF v.raised THEN MergeExcept(existing, w.store, w.mclock)
               ELSE IF ~v.ok
                   THEN {MergeResult(FALSE, "Invalid new badge pair", existing, w.store, w.mclock)}
               ELSE MergeCombine(existing, P, w.store, w.mclock) : w \in ws}

\* Steps 2 and 3, then the rest
MergeFrom2(existing, P, st, mc, t) ==
    LET v == ValidateBadgePair(P) IN
        IF v.raised THEN MergeExcept(existing, st, mc)
        ELSE IF ~v.ok
            THEN {MergeResult(FALSE, "Invalid new badge pair", existing, st, mc)}
        ELSE IF existing # <<>>
            THEN UNION {MergeCombine(existing, P, w.store, w.mclock) :
                            w \in CreateBackup(st, mc, existing, PreMergePrefix, t)}
        ELSE MergeCombine(existing, P, st, mc)

\* merge_badge_pairs(existing_pairs, new_pair): the set of results the call may
\* have, each with the store it leaves
MergeBadgePairs(E, P, st, mc, t) ==
    UNION {IF s.raised THEN MergeExcept(s.existing, st, mc)
                       ELSE MergeFrom2(s.existing, P, st, mc, t) :
           s \in MergeStep1(E, st)}

----------------------------------------------------------------------------
(* Inputs of the merge specification *)

P1 == <<"A1", "E1">>
P2 == <<"A2", "E2">>
P3 == <<"A2", "E1">>
PBadA == <<"Abad", "E1">>       \* a definition reference of another kind
PNoE == <<"A1", "None">>        \* parse_profile_badges_pairs: an 'a' tag without its 'e' tag

MergePairs == {P1, P2, P3, PBadA, PNoE}

SeqsUpTo(S, n) == UNION {[1..k -> S] : k \in 0..n}

\* the event_id a direct caller of create_backup passes
ManualId == [tag |-> "manual", of |-> NoEvent]

\* Stores that create_backup calls leave
MergeStores ==
    {{}, {BackupFile(<<P1>>, PreMergePrefix, 0, 0)},
     {BackupFile(<<>>, ManualId, 0, 0)},
     {BackupFile(<<P2, P1>>, ManualId, 0, 0)}}

NoRes == [called |-> FALSE]

\* What the variables of accept_badge hold while no call of it is modelled
IdleRun ==
    [newPair |-> P1, existing |-> <<>>, merged |-> <<>>, mergeErr |-> "",
     event |-> NoEvent, status |-> "", error |-> "", recovered |-> 0,
     sent |-> {}, published |-> FALSE, prePublish |-> "none", pruned |-> FALSE,
     nMerge |-> 0, mergeFailed |-> FALSE, raisedAt |-> "",
     scripts |-> <<>>, out |-> <<>>, fetched |-> NoEvent, query |-> ""]

InitMerge ==
    /\ now = 1
    /\ mclock = 1
    /\ store \in MergeStores
    /\ mE \in SeqsUpTo(MergePairs, MaxLen)
    /\ mP \in MergePairs
    /\ mres = NoRes
    /\ relays = <<>>
    /\ relayRec = <<>>
    /\ pc = "merge_only"
    /\ ops = 0
    /\ run = IdleRun
    /\ results = <<>>
    /\ shown = {}
    /\ wlog = <<>>

DoMerge ==
    /\ mres = NoRes
    /\ \E r \in MergeBadgePairs(mE, mP, store, mclock, now) :
        /\ mres' = [called |-> TRUE, ok |-> r.ok, err |-> r.err, pairs |-> r.pairs,
                    before |-> store]
        /\ store' = r.store
        /\ mclock' = r.mclock
    /\ UNCHANGED <<now, mE, mP>>
    /\ UNCHANGED acceptVars
    /\ UNCHANGED storeVars

NextMerge == DoMerge

SpecMerge == InitMerge /\ [][NextMerge]_vars

----------------------------------------------------------------------------
(* validate_badge_pair on its own *)

InitValidate ==
    /\ now = 0
    /\ mclock = 0
    /\ store = {}
    /\ mE = <<>>
    /\ mP \in ANames \X ENames
    /\ mres = NoRes
    /\ relays = <<>>
    /\ relayRec = <<>>
    /\ pc = "validate"
    /\ ops = 0
    /\ run = IdleRun
    /\ results = <<>>
    /\ shown = {}
    /\ wlog = <<>>

\* validate_badge_pair(a_tag, e_tag) is called
DoValidate ==
    /\ pc = "validate"
    /\ LET r == ValidateBadgePair(mP) IN
        mres' = [called |-> TRUE, ok |-> r.ok, err |-> r.err, pairs |-> <<>>,
                 before |-> store]
    /\ pc' = "validated"
    /\ UNCHANGED <<now, mclock, store, mE, mP, relays, relayRec, ops, run, results, shown>>
    /\ UNCHANGED storeVars

NextValidate == DoValidate

SpecValidate == InitValidate /\ [][NextValidate]_vars

----------------------------------------------------------------------------
(* relay_manager.py: frames, RelayResult, the per-relay publish *)

NoId == [tag |-> "", of |-> NoEvent]
NoSub == <<"", NoId>>

\* a subscription id of somebody else
OtherSub == <<"other", NoId>>

\* req_id = f"verify_{event['id'][:8]}"
VerifySub(ev) == <<"verify", Prefix8(EventId(ev))>>

\* A message from the relay, as _parse_message returns it ("garbage": None).
Frame(type, id, accepted, msg, sub, ev) ==
    [type |-> type, id |-> id, accepted |-> accepted, msg |-> msg, sub |-> sub, ev |-> ev]
OkFrame(id, accepted, msg) == Frame("OK", id, accepted, msg, NoSub, NoEvent)
NoticeFrame(msg) == Frame("NOTICE", NoId, FALSE, msg, NoSub, NoEvent)
ClosedFrame(sub, reason) == Frame("CLOSED", NoId, FALSE, reason, sub, NoEvent)
EventFrame(sub, ev) == Frame("EVENT", NoId, FALSE, "", sub, ev)
EoseFrame(sub) == Frame("EOSE", NoId, FALSE, "", sub, NoEvent)
GarbageFrame == Frame("garbage", NoId, FALSE, "", NoSub, NoEvent)
\* ws.recv() raises ConnectionClosed
ConnClosed == Frame("conn_closed", NoId, FALSE, "", NoSub, NoEvent)

\* What arrives on the connection: each frame d seconds after the one before.
At(d, f) == [d |-> d, f |-> f]

NoError == <<"None", "">>

\* RelayResult(relay=relay)
NewRelayResult(relay) ==
    [relay |-> relay, connected |-> FALSE, published |-> FALSE, verified |-> FALSE,
     error |-> NoError, ok_message |-> "None", notice_messages |-> <<>>]

RECURSIVE HandleResponsesNackContinues(_, _, _, _)
\* Faulty variant: the loop goes on reading after a negative OK
HandleResponsesNackContinues(stream, res, ev, elapsed) ==
    IF elapsed >= ResponseWindow \/ stream = <<>>
    THEN [res |-> res, stream |-> stream]
    ELSE LET it == Head(stream)
             f == it.f
             rest == Tail(stream)
             el == elapsed + it.d
         IN
        IF it.d >= ResponseRecvTimeout
        THEN [res |-> res, stream |-> <<At(it.d - ResponseRecvTimeout, f)>> \o rest]
        ELSE IF f.type = "conn_closed"
        THEN [res |-> res, stream |-> <<At(0, f)>>]
        ELSE IF f.type = "OK" /\ f.id = EventId(ev)
        THEN LET r2 == [res EXCEPT !.published = f.accepted, !.ok_message = f.msg] IN
             IF ~f.accepted
             THEN HandleResponsesNackContinues(rest,
                    [r2 EXCEPT !.error = <<"Relay rejected", f.msg>>], ev, el)
             ELSE HandleResponsesNackContinues(rest, r2, ev, el)
        ELSE IF f.type = "NOTICE"
        THEN HandleResponsesNackContinues(rest,
                [res EXCEPT !.notice_messages = Append(@, f.msg)], ev, el)
        ELSE IF f.type = "CLOSED"
        THEN [res |-> [res EXCEPT !.error = <<"Connection closed", f.msg>>], stream |-> rest]
        ELSE HandleResponsesNackContinues(rest, res, ev, el)

RECURSIVE HandleResponsesNoticeEnds(_, _, _, _)
\* Faulty variant: a NOTICE ends the loop
HandleResponsesNoticeEnds(stream, res, ev, elapsed) ==
    IF elapsed >= ResponseWindow \/ stream = <<>>
    THEN [res |-> res, stream |-> stream]
    ELSE LET it == Head(stream)
             f == it.f
             rest == Tail(stream)
             el == elapsed + it.d
         IN
        IF it.d >= ResponseRecvTimeout
        THEN [res |-> res, stream |-> <<At(it.d - ResponseRecvTimeout, f)>> \o rest]
        ELSE IF f.type = "conn_closed"
        THEN [res |-> res, stream |-> <<At(0, f)>>]
        ELSE IF f.type = "OK" /\ f.id = EventId(ev)
        THEN LET r2 == [res EXCEPT !.published = f.accepted, !.ok_message = f.msg] IN
             IF ~f.accepted
             THEN [res |-> [r2 EXCEPT !.error = <<"Relay rejected", f.msg>>], stream |-> rest]
             ELSE HandleResponsesNoticeEnds(rest, r2, ev, el)
        ELSE IF f.type = "NOTICE"
        THEN [res |-> [res EXCEPT !.notice_messages = Append(@, f.msg)], stream |-> rest]
        ELSE IF f.type = "CLOSED"
        THEN [res |-> [res EXCEPT !.error = <<"Connection closed", f.msg>>], stream |-> rest]
        ELSE HandleResponsesNoticeEnds(rest, res, ev, el)

RECURSIVE HandleRelayResponses(_, _, _, _)
\* _handle_relay_responses: the loop, `elapsed` seconds after start_time.
\* Returns the result and what is still to arrive on the connection.
HandleRelayResponses(stream, res, ev, elapsed) ==
    IF elapsed >= ResponseWindow \/ stream = <<>>
    THEN [res |-> res, stream |-> stream]
    ELSE LET it == Head(stream)
             f == it.f
             rest == Tail(stream)
             el == elapsed + it.d
         IN
        IF it.d >= ResponseRecvTimeout
        THEN \* asyncio.TimeoutError: break
             [res |-> res, stream |-> <<At(it.d - ResponseRecvTimeout, f)>> \o rest]
        ELSE IF f.type = "conn_closed"
        THEN \* except Exception: break
             [res |-> res, stream |-> <<At(0, f)>>]
        ELSE IF f.type = "OK" /\ f.id = EventId(ev)
        THEN LET r2 == [res EXCEPT !.published = f.accepted, !.ok_message = f.msg] IN
             IF ~f.accepted
             THEN [res |-> [r2 EXCEPT !.error = <<"Relay rejected", f.msg>>], stream |-> rest]
             ELSE HandleRelayResponses(rest, r2, ev, el)
        ELSE IF f.type = "NOTICE"
        THEN HandleRelayResponses(rest,
                [res EXCEPT !.notice_messages = Append(@, f.msg)], ev, el)
        ELSE IF f.type = "CLOSED"
        THEN [res |-> [res EXCEPT !.error = <<"Connection closed", f.msg>>], stream |-> rest]
        ELSE HandleRelayResponses(rest, res, ev, el)

RECURSIVE VerifyLoopTimeoutEscapes(_, _, _, _)
\* Faulty variant: asyncio.TimeoutError is not caught in the verification loop
\* and reaches _publish_to_single_relay, which records "Connection timeout"
VerifyLoopTimeoutEscapes(stream, res, ev, elapsed) ==
    IF elapsed >= VerifyWindow THEN res
    ELSE IF stream = <<>> \/ Head(stream).d >= VerifyRecvTimeout
    THEN [res EXCEPT !.error = <<"Connection timeout", "">>]
    ELSE LET f == Head(stream).f IN
        IF f.type = "conn_closed" THEN res
        ELSE IF f.type = "EVENT" /\ f.sub = VerifySub(ev) /\ EventId(f.ev) = EventId(ev)
        THEN [res EXCEPT !.verified = TRUE]
        ELSE IF f.type = "EOSE" /\ f.sub = VerifySub(ev) THEN res
        ELSE VerifyLoopTimeoutEscapes(Tail(stream), res, ev, elapsed + Head(stream).d)

RECURSIVE VerifyLoopAnyEvent(_, _, _, _)
\* Faulty variant: any EVENT frame counts, whatever its subscription id and
\* the id of its record
VerifyLoopAnyEvent(stream, res, ev, elapsed) ==
    IF elapsed >= VerifyWindow \/ stream = <<>> THEN res
    ELSE LET it == Head(stream)
             f == it.f
         IN
        IF it.d >= VerifyRecvTimeout THEN res
        ELSE IF f.type = "conn_closed" THEN res
        ELSE IF f.type = "EVENT" THEN [res EXCEPT !.verified = TRUE]
        ELSE IF f.type = "EOSE" /\ f.sub = VerifySub(ev) THEN res
        ELSE VerifyLoopAnyEvent(Tail(stream), res, ev, elapsed + it.d)

RECURSIVE VerifyLoop(_, _, _, _)
\* _verify_event_storage: the loop after the REQ was sent
VerifyLoop(stream, res, ev, elapsed) ==
    IF elapsed >= VerifyWindow \/ stream = <<>> THEN res
    ELSE LET it == Head(stream)
             f == it.f
             rest == Tail(stream)
             el == elapsed + it.d
         IN
        IF it.d >= VerifyRecvTimeout THEN res          \* asyncio.TimeoutError: break
        ELSE IF f.type = "conn_closed" THEN res         \* except Exception
        ELSE IF f.type = "EVENT" /\ f.sub = VerifySub(ev) /\ EventId(f.ev) = EventId(ev)
        THEN [res EXCEPT !.verified = TRUE]
        ELSE IF f.type = "EOSE" /\ f.sub = VerifySub(ev) THEN res
        ELSE VerifyLoop(rest, res, ev, el)

\* _verify_event_storage: ws.send(REQ) raises on a connection the relay closed
ReqGoesOut(stream) ==
    ~(stream # <<>> /\ Head(stream).f.type = "conn_closed" /\ Head(stream).d = 0)

\* Faulty variant: no verification round
SkipVerification(stream, res, ev) == res

\* _verify_event_storage
VerifyEventStorage(stream, res, ev) ==
    IF ReqGoesOut(stream) THEN VerifyLoop(stream, res, ev, 0) ELSE res

\* Faulty variant: the verification round is left out once the result carries
\* an error (a rejection, a CLOSED frame)
SessionVerifyUnlessError(ev, res, script) ==
    IF script.connect = "refused"
    THEN [res |-> [res EXCEPT !.error = <<"Unexpected error", "refused">>], out |-> <<>>]
    ELSE IF script.connect = "timeout"
    THEN [res |-> [res EXCEPT !.error = <<"Connection timeout", "">>], out |-> <<>>]
    ELSE LET h == HandleRelayResponses(script.stream, [res EXCEPT !.connected = TRUE], ev, 0)
             s2 == h.stream \o script.answer
         IN  IF h.res.error # NoError THEN [res |-> h.res, out |-> <<"EVENT">>]
             ELSE [res |-> VerifyEventStorage(s2, h.res, ev),
                   out |-> <<"EVENT", IF ReqGoesOut(s2) THEN "REQ" ELSE "REQ raised">>]

\* Faulty variant: a connection that cannot be opened leaves no error in the
\* result
SessionConnectErrorSilent(ev, res, script) ==
    IF script.connect # "ok"
    THEN [res |-> res, out |-> <<>>]
    ELSE LET h == HandleRelayResponses(script.stream, [res EXCEPT !.connected = TRUE], ev, 0)
             s2 == h.stream \o script.answer
         IN  [res |-> VerifyEventStorage(s2, h.res, ev),
              out |-> <<"EVENT", IF ReqGoesOut(s2) THEN "REQ" ELSE "REQ raised">>]

\* _publish_to_single_relay: script.connect says how websockets.connect ends,
\* script.stream what the relay sends after the EVENT frame, script.answer what
\* it sends once the REQ reached it. res is the RelayResult, out the frames
\* the client sent.
PublishSession(ev, res, script) ==
    IF script.connect = "refused"
    THEN [res |-> [res EXCEPT !.error = <<"Unexpected error", "refused">>], out |-> <<>>]
    ELSE IF script.connect = "timeout"
    THEN [res |-> [res EXCEPT !.error = <<"Connection timeout", "">>], out |-> <<>>]
    ELSE LET h == HandleRelayResponses(script.stream, [res EXCEPT !.connected = TRUE], ev, 0)
             s2 == h.stream \o script.answer
         IN  [res |-> VerifyEventStorage(s2, h.res, ev),
              out |-> <<"EVENT", IF ReqGoesOut(s2) THEN "REQ" ELSE "REQ raised">>]

PublishToSingleRelay(ev, res, script) == PublishSession(ev, res, script).res

\* get_summary
GetSummary(rs) ==
    [total |-> Len(rs),
     connected |-> Cardinality({i \in 1..Len(rs) : rs[i].connected}),
     published |-> Cardinality({i \in 1..Len(rs) : rs[i].published}),
     verified |-> Cardinality({i \in 1..Len(rs) : rs[i].verified})]

----------------------------------------------------------------------------
(* recipient_acceptance.py: the record, its tags, the fetch *)

\* A tag is a sequence of strings: tags[i][0] in the code is tag[1] here.
DTag == <<"d", "profile_badges">>

RECURSIVE ParseFrom(_, _, _)
\* parse_profile_badges_pairs: the loop from tag i on. An empty tag, or an 'a'
\* or 'e' tag without a value, raises IndexError.
ParseFrom(tags, i, pairs) ==
    IF i > Len(tags) THEN [raised |-> FALSE, pairs |-> pairs]
    ELSE IF Len(tags[i]) = 0 THEN [raised |-> TRUE, pairs |-> pairs]
    ELSE IF tags[i][1] = "a"
    THEN IF Len(tags[i]) < 2 THEN [raised |-> TRUE, pairs |-> pairs]
         ELSE IF i + 1 <= Len(tags) /\ Len(tags[i + 1]) = 0
            THEN [raised |-> TRUE, pairs |-> pairs]
         ELSE IF i + 1 <= Len(tags) /\ tags[i + 1][1] = "e"
            THEN IF Len(tags[i + 1]) < 2 THEN [raised |-> TRUE, pairs |-> pairs]
                 ELSE ParseFrom(tags, i + 2, Append(pairs, <<tags[i][2], tags[i + 1][2]>>))
         ELSE ParseFrom(tags, i + 1, Append(pairs, <<tags[i][2], "None">>))
    ELSE ParseFrom(tags, i + 1, pairs)

ParseProfileBadgesPairs(tags) == ParseFrom(tags, 1, <<>>)

RECURSIVE PairTagsEFirst(_, _, _)
\* Faulty variant: the 'e' tag of a pair is written before its 'a' tag
PairTagsEFirst(pairs, i, urls) ==
    IF i > Len(pairs) THEN <<>>
    ELSE <<(IF urls # <<>> THEN <<"e", pairs[i][2], urls[1]>> ELSE <<"e", pairs[i][2]>>),
           (<<"a", pairs[i][1]>>)>>
         \o PairTagsEFirst(pairs, i + 1, urls)

RECURSIVE PairTags(_, _, _)
\* the a/e interleaved tags of create_merged_profile_badges_event
PairTags(pairs, i, urls) ==
    IF i > Len(pairs) THEN <<>>
    ELSE <<(<<"a", pairs[i][1]>>),
           (IF urls # <<>> THEN <<"e", pairs[i][2], urls[1]>> ELSE <<"e", pairs[i][2]>>)>>
         \o PairTags(pairs, i + 1, urls)

\* create_merged_profile_badges_event(badge_pairs, relay_urls), signed at second t
CreateMergedProfileBadgesEvent(pairs, urls, t) ==
    [kind |-> ProfileBadgesKind, pubkey |-> Owner, created_at |-> t,
     tags |-> <<DTag>> \o PairTags(pairs, 1, urls)]

\* fetch_existing_profile_badges: the first relay, in the order supplied, that
\* answers the REQ with its record; `answering` are the relays that answer at
\* all (the others fail to connect, time out or send EOSE). None is NoEvent.
FetchExistingProfileBadges(urls, recs, answering) ==
    LET hits == {i \in 1..Len(urls) :
                    urls[i] \in answering /\ recs[urls[i]].kind = ProfileBadgesKind}
    IN  IF hits = {} THEN NoEvent
        ELSE recs[urls[CHOOSE i \in hits : \A j \in hits : i <= j]]

----------------------------------------------------------------------------
(* accept_badge *)

AllRelays == <<"r1", "r2">>
RelayNames == {AllRelays[i] : i \in 1..Len(AllRelays)}

\* the endpoint lists a configuration may supply
RelayLists == {SubSeq(AllRelays, 1, n) : n \in 0..Len(AllRelays)}

\* A record another client left on a relay: an 'a' tag without a value
CorruptRecord ==
    [kind |-> ProfileBadgesKind, pubkey |-> Owner, created_at |-> 0,
     tags |-> <<DTag, <<"a">>>>]

InitialRecords == {NoEvent, CorruptRecord}

\* the pairs accept_badge is called with
NewPairs == {P1, P2, PBadA}

\* How one relay behaves during publish_event, given the event published.
\* stores: the relay holds the event afterwards.
Script(connect, stores, stream, answer) ==
    [connect |-> connect, stores |-> stores, stream |-> stream, answer |-> answer]

AcceptScripts(ev) ==
    {Script("refused", FALSE, <<>>, <<>>),
     Script("ok", TRUE, <<At(0, OkFrame(EventId(ev), TRUE, ""))>>,
            <<At(0, EventFrame(VerifySub(ev), ev))>>),
     Script("ok", FALSE, <<At(0, OkFrame(EventId(ev), TRUE, ""))>>,
            <<At(0, EoseFrame(VerifySub(ev)))>>),
     Script("ok", TRUE, <<At(0, OkFrame(EventId(ev), FALSE, "duplicate"))>>,
            <<At(0, EventFrame(VerifySub(ev), ev))>>),
     Script("ok", FALSE, <<>>, <<>>)}

\* The snapshots max_backups earlier calls of accept_badge left, one each, in
\* the seconds before the first call modelled: each accepted P1 on r1 and found
\* no record.
EarlierSnapshots ==
    {BackupFile(<<P1>>,
                Prefix8(EventId(CreateMergedProfileBadgesEvent(<<P1>>, <<AllRelays[1]>>, 0 - k))),
                0 - k, 0 - k) : k \in 1..MaxBackups}

InitAccept ==
    /\ now = 0
    /\ mclock = 0
    /\ store \in {{}, EarlierSnapshots}
    /\ mE = <<>>
    /\ mP = P1
    /\ mres = NoRes
    /\ relays \in RelayLists
    /\ relayRec \in [RelayNames -> InitialRecords]
    /\ \A r \in RelayNames :
        (r # AllRelays[1] \/ relays = <<>>) => relayRec[r] = NoEvent
    /\ store # {} => (relays = <<AllRelays[1]>> /\ relayRec[AllRelays[1]] = NoEvent)
    /\ pc = "idle"
    /\ ops = 0
    /\ run = IdleRun
    /\ results = <<>>
    /\ shown = {}
    /\ wlog = <<>>

\* A call starts in the second the previous one started in, or in the next one
\* (and then after the filesystem's time moved on).
CallTime(dt) ==
    /\ pc \in {"idle", "done"}
    /\ ops < MaxOps
    /\ ops' = ops + 1
    /\ dt = 1 => ops > 0
    /\ now' = now + dt

CallMtime(dt) == IF dt = 1 THEN LaterMtime(store, mclock) ELSE mclock

\* a direct call of create_backup(badge_pairs, event_id)
CreateBackupCall ==
    \E dt \in {0, 1} :
        /\ CallTime(dt)
        /\ \E pairs \in {<<>>} :
            \E w \in CreateBackup(store, CallMtime(dt), pairs, ManualId, now') :
                /\ store' = w.store
                /\ mclock' = w.mclock
        /\ UNCHANGED <<mergeVars, storeVars, relays, relayRec, pc, run, results, shown>>

\* accept_badge(badge_definition_a_tag, badge_award_event_id, relay_urls) is called
StartRun ==
    \E dt \in {0, 1} :
        /\ CallTime(dt)
        /\ mclock' = CallMtime(dt)
        /\ \E p \in NewPairs : run' = [IdleRun EXCEPT !.newPair = p]
        /\ results' = <<>>
        /\ pc' = "fetch"
        /\ UNCHANGED <<store, mergeVars, storeVars, relays, relayRec, shown>>

\* Steps 1 and 2: fetch the existing record and parse its pairs
FetchExisting ==
    /\ pc = "fetch"
    /\ \E answering \in SUBSET RelayNames :
        LET ev == FetchExistingProfileBadges(relays, relayRec, answering)
            parsed == IF ev = NoEvent THEN [raised |-> FALSE, pairs |-> <<>>]
                      ELSE ParseProfileBadgesPairs(ev.tags)
        IN  IF parsed.raised
            THEN /\ run' = [run EXCEPT !.error = "IndexError", !.raisedAt = "parse"]
                 /\ pc' = "recover"
            ELSE /\ run' = [run EXCEPT !.existing = parsed.pairs]
                 /\ pc' = "merge"
    /\ UNCHANGED <<now, mclock, store, mergeVars, storeVars, relays, relayRec, ops, results, shown>>

\* Faulty variant: merge_success is not looked at: the call goes on with the pairs
\* the failed merge returned
MergeStepContinues ==
    /\ pc = "merge"
    /\ \E r \in MergeBadgePairs(run.existing, run.newPair, store, mclock, now) :
        /\ store' = r.store
        /\ mclock' = r.mclock
        /\ run' = [run EXCEPT !.nMerge = @ + 1, !.merged = r.pairs,
                              !.mergeErr = r.err, !.mergeFailed = ~r.ok]
        /\ pc' = "backup"
    /\ UNCHANGED <<now, mergeVars, storeVars, relays, relayRec, ops, results, shown>>

\* Steps 3 and 4: merge, and return merge_failed when the merge failed
MergeStep ==
    /\ pc = "merge"
    /\ \E r \in MergeBadgePairs(run.existing, run.newPair, store, mclock, now) :
        /\ store' = r.store
        /\ mclock' = r.mclock
        /\ IF ~r.ok
           THEN /\ run' = [run EXCEPT !.nMerge = @ + 1, !.mergeErr = r.err,
                                      !.mergeFailed = TRUE,
                                      !.status = "merge_failed", !.error = r.err,
                                      !.recovered = Len(r.pairs)]
                /\ pc' = "done"
           ELSE /\ run' = [run EXCEPT !.nMerge = @ + 1, !.merged = r.pairs]
                /\ pc' = "backup"
    /\ UNCHANGED <<now, mergeVars, storeVars, relays, relayRec, ops, results, shown>>

\* Steps 5 and 6: create the merged event, create_backup(merged_pairs, event id)
BackupStep ==
    /\ pc = "backup"
    /\ LET ev == CreateMergedProfileBadgesEvent(run.merged, relays, now) IN
        \E w \in CreateBackup(store, mclock, run.merged, Prefix8(EventId(ev)), now) :
            /\ run' = [run EXCEPT !.event = ev,
                                  !.prePublish = IF w.ok THEN "written" ELSE "failed"]
            /\ store' = w.store
            /\ mclock' = w.mclock
    /\ pc' = "publish"
    /\ UNCHANGED <<now, mergeVars, storeVars, relays, relayRec, ops, results, shown>>

\* publish_event(event, relays): one RelayResult per relay, in order; scs[i]
\* is how relay i behaves
PublishEvent(ev, urls, scs) ==
    [i \in 1..Len(urls) |-> PublishToSingleRelay(ev, NewRelayResult(urls[i]), scs[i])]

\* Step 7: publish_event. The EVENT frame reaches the relays that accept the
\* connection.
PublishStep ==
    /\ pc = "publish"
    /\ \E scs \in [1..Len(relays) -> AcceptScripts(run.event)] :
        LET sentTo == {i \in 1..Len(relays) : scs[i].connect = "ok"} IN
            /\ results' = PublishEvent(run.event, relays, scs)
            /\ run' = [run EXCEPT !.sent = {relays[i] : i \in sentTo}, !.published = TRUE,
                                  !.scripts = scs,
                                  !.out = [i \in 1..Len(relays) |->
                                            PublishSession(run.event, NewRelayResult(relays[i]), scs[i]).out]]
            /\ relayRec' = [r \in RelayNames |->
                    IF \E i \in sentTo : relays[i] = r /\ scs[i].stores
                    THEN run.event ELSE relayRec[r]]
    /\ pc' = "check"
    /\ UNCHANGED <<now, mclock, store, mergeVars, storeVars, relays, ops, shown>>

\* Faulty variant: counts the acknowledged relays instead
PublishedCount(rs) == Cardinality({i \in 1..Len(rs) : rs[i].published})

\* verified_count = sum(1 for r in results if r.verified)
VerifiedCount(rs) == Cardinality({i \in 1..Len(rs) : rs[i].verified})

PairSet(pairs) == {pairs[i] : i \in 1..Len(pairs)}

\* Faulty variant: cleanup_old_backups is called before the result is looked at
CheckStepPrunesFirst ==
    /\ pc = "check"
    /\ \E st \in CleanupOldBackups(store) : store' = st
    /\ IF VerifiedCount(results) > 0
       THEN /\ run' = [run EXCEPT !.status = "success", !.pruned = TRUE]
            /\ shown' = shown \cup PairSet(run.merged)
       ELSE /\ run' = [run EXCEPT !.status = "published_unverified", !.pruned = TRUE]
            /\ UNCHANGED shown
    /\ pc' = "done"
    /\ UNCHANGED <<now, mclock, mergeVars, storeVars, relays, relayRec, ops, results>>

\* Steps 8 and 9: success and cleanup when a relay verified, else
\* published_unverified
CheckStep ==
    /\ pc = "check"
    /\ IF VerifiedCount(results) > 0
       THEN /\ \E st \in CleanupOldBackups(store) : store' = st
            /\ run' = [run EXCEPT !.status = "success", !.pruned = TRUE]
            /\ shown' = shown \cup PairSet(run.merged)
       ELSE /\ run' = [run EXCEPT !.status = "published_unverified"]
            /\ UNCHANGED <<store, shown>>
    /\ pc' = "done"
    /\ UNCHANGED <<now, mclock, mergeVars, storeVars, relays, relayRec, ops, results>>

\* Faulty variant: without a snapshot to fall back on, the error is raised again
RecoverStepRaises ==
    /\ pc = "recover"
    /\ \E b \in LoadLatestBackup(store) :
        IF Truthy(b)
        THEN /\ run' = [run EXCEPT !.status = "recovered_from_backup", !.recovered = Len(b.pairs)]
             /\ pc' = "done"
        ELSE /\ run' = run
             /\ pc' = "raised"
    /\ UNCHANGED <<now, mclock, store, mergeVars, storeVars, relays, relayRec, ops, results, shown>>

\* except Exception: recovered_from_backup when load_latest_backup is truthy,
\* else failed
RecoverStep ==
    /\ pc = "recover"
    /\ \E b \in LoadLatestBackup(store) :
        run' = IF Truthy(b)
               THEN [run EXCEPT !.status = "recovered_from_backup", !.recovered = Len(b.pairs)]
               ELSE [run EXCEPT !.status = "failed", !.recovered = 0]
    /\ pc' = "done"
    /\ UNCHANGED <<now, mclock, store, mergeVars, storeVars, relays, relayRec, ops, results, shown>>

NextAccept ==
    \/ CreateBackupCall
    \/ StartRun
    \/ FetchExisting
    \/ MergeStep
    \/ BackupStep
    \/ PublishStep
    \/ CheckStep
    \/ RecoverStep

SpecAccept == InitAccept /\ [][NextAccept]_vars

----------------------------------------------------------------------------
(* The Backup Store on its own: create_backup and cleanup_old_backups calls *)

\* badge_pairs of the k-th create_backup call
WritePairs(k) == IF k % 2 = 1 THEN <<P1>> ELSE <<P1, P2>>

\* event_id of a create_backup call at second t: the pre-merge id of
\* merge_badge_pairs, or the id of the event accept_badge made of the pairs
StoreIds(pairs, t) ==
    {PreMergeId(t), EventId(CreateMergedProfileBadgesEvent(pairs, <<>>, t))}

InitStore ==
    /\ now = 0
    /\ mclock = 0
    /\ store = {}
    /\ mE = <<>>
    /\ mP = P1
    /\ mres = NoRes
    /\ relays = <<>>
    /\ relayRec = <<>>
    /\ pc = "store"
    /\ ops = 0
    /\ run = IdleRun
    /\ results = <<>>
    /\ shown = {}
    /\ wlog = <<>>

\* create_backup(badge_pairs, event_id), in the second of the call before or in
\* the next one
StoreWrite ==
    /\ pc \in {"store", "written", "pruned"}
    /\ Len(wlog) < MaxWrites
    /\ \E dt \in {0, 1} :
        /\ now' = now + dt
        /\ LET pairs == WritePairs(Len(wlog) + 1) IN
            \E id \in StoreIds(pairs, now') :
                \E w \in CreateBackup(store, CallMtime(dt), pairs, Prefix8(id), now') :
                    /\ store' = w.store
                    /\ mclock' = w.mclock
                    /\ wlog' = Append(wlog, [ok |-> w.ok, key |-> <<now', Prefix8(id)>>,
                                             pairs |-> pairs])
    /\ pc' = "written"
    /\ UNCHANGED <<mergeVars, relays, relayRec, ops, run, results, shown>>

\* cleanup_old_backups()
StoreCleanup ==
    /\ pc = "written"
    /\ \E st \in CleanupOldBackups(store) : store' = st
    /\ pc' = "pruned"
    /\ UNCHANGED <<now, mclock, mergeVars, storeVars, relays, relayRec, ops, run, results, shown>>

NextStore ==
    \/ StoreWrite
    \/ StoreCleanup

SpecStore == InitStore /\ [][NextStore]_vars

----------------------------------------------------------------------------
(* publish_event on its own: one relay after the other *)

\* the event published
RelayEvent(urls) == CreateMergedProfileBadgesEvent(<<P1>>, urls, 0)

\* the delay after which neither wait_for(ws.recv()) is still waiting
PastBothTimeouts == ResponseRecvTimeout + VerifyRecvTimeout

\* What a relay may send after the EVENT frame
StreamItems(ev) ==
    {At(0, OkFrame(EventId(ev), TRUE, "")),
     At(0, OkFrame(EventId(ev), FALSE, "blocked")),
     At(0, NoticeFrame("rate-limited")),
     At(0, ClosedFrame(NoSub, "shutting down")),
     At(0, ConnClosed),
     At(PastBothTimeouts, OkFrame(EventId(ev), TRUE, ""))}

\* What a relay may send once it has the REQ
Answers(ev) ==
    {<<>>,
     <<At(0, EventFrame(VerifySub(ev), ev))>>,
     <<At(0, EoseFrame(VerifySub(ev)))>>}

RelayScripts(ev) ==
    {Script("refused", FALSE, <<>>, <<>>), Script("timeout", FALSE, <<>>, <<>>)}
    \cup {Script("ok", FALSE, st, an) :
            st \in SeqsUpTo(StreamItems(ev), MaxFrames), an \in Answers(ev)}

InitRelay ==
    /\ now = 0
    /\ mclock = 0
    /\ store = {}
    /\ mE = <<>>
    /\ mP = P1
    /\ mres = NoRes
    /\ relays \in RelayLists
    /\ relayRec = [r \in RelayNames |-> NoEvent]
    /\ pc = "relay_loop"
    /\ ops = 0
    /\ run = [IdleRun EXCEPT !.event = RelayEvent(relays)]
    /\ results = <<>>
    /\ shown = {}
    /\ wlog = <<>>

\* Faulty variant: the loop is left after a relay whose result carries an error
PublishReturnOnError ==
    /\ pc = "relay_loop"
    /\ \/ Len(results) = Len(relays)
       \/ results # <<>> /\ results[Len(results)].error # NoError
    /\ pc' = "relay_done"
    /\ UNCHANGED <<now, mclock, store, mergeVars, storeVars, relays, relayRec, ops, run,
                   results, shown>>

\* publish_event: one turn of `for relay in relays`
PublishOne ==
    /\ pc = "relay_loop"
    /\ Len(results) < Len(relays)
    /\ \E sc \in RelayScripts(run.event) :
        LET s == PublishSession(run.event, NewRelayResult(relays[Len(results) + 1]), sc) IN
            /\ results' = Append(results, s.res)
            /\ run' = [run EXCEPT !.scripts = Append(@, sc), !.out = Append(@, s.out)]
    /\ UNCHANGED <<now, mclock, store, mergeVars, storeVars, relays, relayRec, pc, ops, shown>>

\* publish_event: return self.results
PublishReturn ==
    /\ pc = "relay_loop"
    /\ Len(results) = Len(relays)
    /\ pc' = "relay_done"
    /\ UNCHANGED <<now, mclock, store, mergeVars, storeVars, relays, relayRec, ops, run,
                   results, shown>>

NextRelay ==
    \/ PublishOne
    \/ PublishReturn

SpecRelay == InitRelay /\ [][NextRelay]_vars

----------------------------------------------------------------------------
(* _publish_to_single_relay on its own: one relay, all it may send *)

\* a record that is not the one published
OtherEvent(ev) == [ev EXCEPT !.created_at = @ + 1]

\* What the relay may send after the EVENT frame
SessionItems(ev) ==
    {At(0, OkFrame(EventId(ev), TRUE, "")),
     At(0, OkFrame(EventId(ev), FALSE, "blocked")),
     At(0, OkFrame(EventId(OtherEvent(ev)), FALSE, "invalid")),
     At(0, NoticeFrame("rate-limited")),
     At(0, NoticeFrame("restricted")),
     At(0, ClosedFrame(NoSub, "shutting down")),
     At(0, ConnClosed),
     At(0, EventFrame(VerifySub(ev), ev)),
     At(PastBothTimeouts, OkFrame(EventId(ev), TRUE, ""))}

\* What the relay may send once it has the REQ
SessionAnswers(ev) ==
    {<<>>,
     <<At(0, EventFrame(VerifySub(ev), ev))>>,
     <<At(0, EoseFrame(VerifySub(ev)))>>,
     <<At(0, EventFrame(OtherSub, ev))>>,
     <<At(0, EventFrame(VerifySub(ev), OtherEvent(ev)))>>,
     <<At(0, EventFrame(OtherSub, ev)), At(0, EventFrame(VerifySub(ev), ev))>>}

SessionScripts(ev) ==
    {Script("refused", FALSE, <<>>, <<>>), Script("timeout", FALSE, <<>>, <<>>)}
    \cup {Script("ok", FALSE, st, an) :
            st \in SeqsUpTo(SessionItems(ev), MaxSessionFrames), an \in SessionAnswers(ev)}

InitSession ==
    /\ now = 0
    /\ mclock = 0
    /\ store = {}
    /\ mE = <<>>
    /\ mP = P1
    /\ mres = NoRes
    /\ relays = <<AllRelays[1]>>
    /\ relayRec = [r \in RelayNames |-> NoEvent]
    /\ pc = "session"
    /\ ops = 0
    /\ run = [IdleRun EXCEPT !.event = RelayEvent(relays)]
    /\ results = <<>>
    /\ shown = {}
    /\ wlog = <<>>

\* _publish_to_single_relay(event, result)
RunSession ==
    /\ pc = "session"
    /\ \E sc \in SessionScripts(run.event) :
        LET s == PublishSession(run.event, NewRelayResult(relays[1]), sc) IN
            /\ results' = <<s.res>>
            /\ run' = [run EXCEPT !.scripts = <<sc>>, !.out = <<s.out>>]
    /\ pc' = "session_done"
    /\ UNCHANGED <<now, mclock, store, mergeVars, storeVars, relays, relayRec, ops, shown>>

NextSession == RunSession

SpecSession == InitSession /\ [][NextSession]_vars

----------------------------------------------------------------------------
(* The two relay queries on their own: fetch_existing_profile_badges and
   _query_relays_for_definition, one relay after the other *)

TimeId(t) == [tag |-> "time", of |-> [NoEvent EXCEPT !.created_at = t]]

\* req_id = f"fetch_profile_badges_{int(time.time())}"
FetchSub(t) == <<"fetch_profile_badges", TimeId(t)>>

\* req_id = f"req_def:{d_value[:8]}:{int(time.time())}"
DefSub(t) == <<"req_def", TimeId(t)>>

Miss(took) == [hit |-> FALSE, ev |-> NoEvent, took |-> took]
Hit(ev, took) == [hit |-> TRUE, ev |-> ev, took |-> took]

RECURSIVE FetchLoop(_, _, _)
\* fetch_existing_profile_badges: the while loop on one relay, `elapsed`
\* seconds after start_time. A read error is swallowed by `continue`, and the
\* loop turns until the window is over.
FetchLoop(stream, sub, elapsed) ==
    IF elapsed >= FetchWindow THEN Miss(elapsed)
    ELSE IF stream = <<>> THEN Miss(elapsed + FetchRecvTimeout)
    ELSE LET it == Head(stream)
             f == it.f
             rest == Tail(stream)
             el == elapsed + it.d
         IN
        IF it.d >= FetchRecvTimeout THEN Miss(elapsed + FetchRecvTimeout)
        ELSE IF f.type = "conn_closed" THEN Miss(FetchWindow)
        ELSE IF f.type = "garbage" THEN FetchLoop(rest, sub, el)
        ELSE IF f.type = "EVENT"
        THEN IF f.sub = sub /\ f.ev.kind = ProfileBadgesKind
             THEN Hit(f.ev, el)
             ELSE FetchLoop(rest, sub, el)
        ELSE IF f.type = "EOSE" /\ f.sub = sub THEN Miss(el)
        ELSE FetchLoop(rest, sub, el)

\* fetch_existing_profile_badges: the body of `for relay in relay_urls`
FetchRelay(script, sub) ==
    IF script.connect # "ok" THEN Miss(0) ELSE FetchLoop(script.answer, sub, 0)

RECURSIVE QueryLoop(_, _, _)
\* _query_single: the while loop. A read error leaves through the outer
\* `except Exception: return None`.
QueryLoop(stream, sub, elapsed) ==
    IF elapsed >= QueryWindow THEN Miss(elapsed)
    ELSE IF stream = <<>> THEN Miss(elapsed + 2)
    ELSE LET it == Head(stream)
             f == it.f
             rest == Tail(stream)
             el == elapsed + it.d
         IN
        IF 10 * it.d >= QueryRecvTimeoutTenths THEN Miss(elapsed + 2)
        ELSE IF f.type = "conn_closed" THEN Miss(el)
        ELSE IF f.type = "garbage" THEN QueryLoop(rest, sub, el)
        ELSE IF f.type = "EVENT" /\ f.sub = sub THEN Hit(f.ev, el)
        ELSE IF f.type = "EOSE" /\ f.sub = sub THEN Miss(el)
        ELSE QueryLoop(rest, sub, el)

\* _query_single(relay), and `if ev:` of the caller: an empty payload is no
\* record
QuerySingle(script, sub) ==
    IF script.connect # "ok" THEN Miss(0)
    ELSE LET q == QueryLoop(script.answer, sub, 0) IN
         IF q.hit /\ q.ev # NoEvent THEN q ELSE Miss(q.took)

Queries == {"profile_badges", "definition"}

QuerySub(query, t) == IF query = "profile_badges" THEN FetchSub(t) ELSE DefSub(t)

\* one relay of either query
QueryRelay(query, script, sub) ==
    IF query = "profile_badges" THEN FetchRelay(script, sub) ELSE QuerySingle(script, sub)

\* the record relay r holds
RecordAt(r) == CreateMergedProfileBadgesEvent(<<P1>>, <<r>>, 0)

\* a record of the same kind signed by another key, which the filter's
\* "authors" does not ask for
ForeignRecord(r) == [CreateMergedProfileBadgesEvent(<<P2>>, <<r>>, 0) EXCEPT !.pubkey = OtherOwner]

\* a record of the owner of the same kind under another 'd' value, which the
\* filter's "#d" does not ask for
OtherListRecord(r) ==
    [kind |-> ProfileBadgesKind, pubkey |-> Owner, created_at |-> 0,
     tags |-> <<(<<"d", "other_list">>)>> \o PairTags(<<P3>>, 1, <<r>>)]

\* What relay r may send once it has the REQ with subscription id sub
AnswerItems(sub, r) ==
    {At(0, EventFrame(sub, RecordAt(r))),
     At(0, EventFrame(sub, NoEvent)),
     At(0, EventFrame(OtherSub, RecordAt(r))),
     At(0, EventFrame(sub, ForeignRecord(r))),
     At(0, EventFrame(sub, OtherListRecord(r))),
     At(0, EoseFrame(sub)),
     At(0, GarbageFrame),
     At(0, ConnClosed),
     At(FetchRecvTimeout, EventFrame(sub, RecordAt(r)))}

FetchScripts(sub, r) ==
    {Script("refused", FALSE, <<>>, <<>>)}
    \cup {Script("ok", FALSE, <<>>, an) : an \in SeqsUpTo(AnswerItems(sub, r), MaxAnswer)}

InitFetch ==
    /\ now = 0
    /\ mclock = 0
    /\ store = {}
    /\ mE = <<>>
    /\ mP = P1
    /\ mres = NoRes
    /\ relays \in RelayLists
    /\ relayRec = [r \in RelayNames |-> NoEvent]
    /\ pc = "fetch_loop"
    /\ ops = 0
    /\ \E q \in Queries : run = [IdleRun EXCEPT !.query = q]
    /\ results = <<>>
    /\ shown = {}
    /\ wlog = <<>>

\* Faulty variant: the record found is kept and the loop goes on to the relays
\* after it
FetchOneKeepsGoing ==
    /\ pc = "fetch_loop"
    /\ Len(run.scripts) < Len(relays)
    /\ LET r == relays[Len(run.scripts) + 1]
           sub == QuerySub(run.query, now)
       IN  \E sc \in FetchScripts(sub, r) :
            LET q == QueryRelay(run.query, sc, sub) IN
                /\ now' = now + q.took
                /\ run' = [run EXCEPT !.scripts = Append(@, sc), !.out = Append(@, sub),
                                      !.fetched = IF q.hit THEN q.ev ELSE @]
                /\ pc' = IF q.hit /\ Len(run.scripts) + 1 = Len(relays)
                         THEN "fetch_returned" ELSE pc
    /\ UNCHANGED <<mclock, store, mergeVars, storeVars, relays, relayRec, ops, results, shown>>

\* Faulty variant: a relay that refuses the connection ends the query
FetchOneStopsOnError ==
    /\ pc = "fetch_loop"
    /\ Len(run.scripts) < Len(relays)
    /\ LET r == relays[Len(run.scripts) + 1]
           sub == QuerySub(run.query, now)
       IN  \E sc \in FetchScripts(sub, r) :
            LET q == QueryRelay(run.query, sc, sub) IN
                /\ now' = now + q.took
                /\ run' = [run EXCEPT !.scripts = Append(@, sc), !.out = Append(@, sub),
                                      !.fetched = q.ev]
                /\ pc' = IF q.hit \/ sc.connect # "ok" THEN "fetch_returned" ELSE pc
    /\ UNCHANGED <<mclock, store, mergeVars, storeVars, relays, relayRec, ops, results, shown>>

\* One turn of `for relay in relay_urls`: the relay is asked, and its record
\* returned if it sends one
FetchOne ==
    /\ pc = "fetch_loop"
    /\ Len(run.scripts) < Len(relays)
    /\ LET r == relays[Len(run.scripts) + 1]
           sub == QuerySub(run.query, now)
       IN  \E sc \in FetchScripts(sub, r) :
            LET q == QueryRelay(run.query, sc, sub) IN
                /\ now' = now + q.took
                /\ run' = [run EXCEPT !.scripts = Append(@, sc), !.out = Append(@, sub),
                                      !.fetched = q.ev]
                /\ pc' = IF q.hit THEN "fetch_returned" ELSE pc
    /\ UNCHANGED <<mclock, store, mergeVars, storeVars, relays, relayRec, ops, results, shown>>

\* `return None` after the loop
FetchNone ==
    /\ pc = "fetch_loop"
    /\ Len(run.scripts) = Len(relays)
    /\ run' = [run EXCEPT !.fetched = NoEvent]
    /\ pc' = "fetch_returned"
    /\ UNCHANGED <<now, mclock, store, mergeVars, storeVars, relays, relayRec, ops, results, shown>>

\* accept_badge, steps 1 and 2, with what fetch_existing_profile_badges returned
FetchParse ==
    /\ pc = "fetch_returned"
    /\ run.query = "profile_badges"
    /\ LET parsed == IF run.fetched = NoEvent THEN [raised |-> FALSE, pairs |-> <<>>]
                     ELSE ParseProfileBadgesPairs(run.fetched.tags)
       IN  IF parsed.raised
           THEN /\ run' = [run EXCEPT !.error = "IndexError", !.raisedAt = "parse"]
                /\ pc' = "recover"
           ELSE /\ run' = [run EXCEPT !.existing = parsed.pairs]
                /\ pc' = "merge"
    /\ UNCHANGED <<now, mclock, store, mergeVars, storeVars, relays, relayRec, ops, results, shown>>

NextFetch ==
    \/ FetchOne
    \/ FetchNone
    \/ FetchParse

SpecFetch == InitFetch /\ [][NextFetch]_vars

----------------------------------------------------------------------------
(* The two read loops of one connection, one turn after the other, with the
   clock. Times are in ticks. *)

Ticks(seconds) == seconds * TicksPerSecond

\* the frames a relay may send at any moment
WindowFrames(ev) ==
    {NoticeFrame("rate-limited"),
     GarbageFrame,
     OkFrame(EventId(ev), TRUE, ""),
     OkFrame(EventId(ev), FALSE, "blocked"),
     ClosedFrame(NoSub, "shutting down"),
     EventFrame(VerifySub(ev), ev),
     EoseFrame(VerifySub(ev)),
     ConnClosed}

\* _handle_relay_responses: what one frame read does to the result, and
\* whether the loop is left after it
ResponseTurnBody(f, res, ev) ==
    IF f.type = "conn_closed" THEN [res |-> res, ends |-> TRUE]
    ELSE IF f.type = "OK" /\ f.id = EventId(ev)
    THEN LET r2 == [res EXCEPT !.published = f.accepted, !.ok_message = f.msg] IN
         IF ~f.accepted
         THEN [res |-> [r2 EXCEPT !.error = <<"Relay rejected", f.msg>>], ends |-> TRUE]
         ELSE [res |-> r2, ends |-> FALSE]
    ELSE IF f.type = "NOTICE"
    THEN [res |-> [res EXCEPT !.notice_messages = Append(@, f.msg)], ends |-> FALSE]
    ELSE IF f.type = "CLOSED"
    THEN [res |-> [res EXCEPT !.error = <<"Connection closed", f.msg>>], ends |-> TRUE]
    ELSE [res |-> res, ends |-> FALSE]

\* _verify_event_storage: the same for its loop
VerifyTurnBody(f, res, ev) ==
    IF f.type = "conn_closed" THEN [res |-> res, ends |-> TRUE]
    ELSE IF f.type = "EVENT" /\ f.sub = VerifySub(ev) /\ EventId(f.ev) = EventId(ev)
    THEN [res |-> [res EXCEPT !.verified = TRUE], ends |-> TRUE]
    ELSE IF f.type = "EOSE" /\ f.sub = VerifySub(ev) THEN [res |-> res, ends |-> TRUE]
    ELSE [res |-> res, ends |-> FALSE]

\* The connection is open and the EVENT frame sent: start_time of the
\* response loop is taken.
InitWindow ==
    /\ now = 0
    /\ mclock = 0
    /\ store = {}
    /\ mE = <<>>
    /\ mP = P1
    /\ mres = NoRes
    /\ relays = <<AllRelays[1]>>
    /\ relayRec = [r \in RelayNames |-> NoEvent]
    /\ pc = "responses"
    /\ ops = 0
    /\ run = [IdleRun EXCEPT !.event = RelayEvent(relays)]
    /\ results = <<[NewRelayResult(relays[1]) EXCEPT !.connected = TRUE]>>
    /\ shown = {}
    /\ wlog = <<>>

\* A frame arrives d ticks after the read began, before the read times out.
\* Frames that take no time at all are counted, at most MaxBurst of them.
Arrives(d, timeout) ==
    /\ d < Ticks(timeout)
    /\ d = 0 => ops < MaxBurst
    /\ ops' = IF d = 0 THEN ops + 1 ELSE ops

\* a loop is left at tick t: `window` took from its start_time to t
LoopLeft(window, t, next) ==
    /\ now' = t
    /\ mclock' = t
    /\ wlog' = Append(wlog, [window |-> window, took |-> t - mclock])
    /\ pc' = next

\* Faulty variant: `while True`, the elapsed time is not looked at
ResponseTurnNoDeadline ==
    /\ pc = "responses"
    /\ \/ /\ LoopLeft("responses", now + Ticks(ResponseRecvTimeout), "verify")
          /\ UNCHANGED <<ops, results>>
       \/ \E d \in 0..Ticks(ResponseRecvTimeout), f \in WindowFrames(run.event) :
            LET o == ResponseTurnBody(f, results[1], run.event) IN
                /\ Arrives(d, ResponseRecvTimeout)
                /\ results' = <<o.res>>
                /\ IF o.ends
                   THEN LoopLeft("responses", now + d,
                                 IF f.type = "conn_closed" THEN "session_over" ELSE "verify")
                   ELSE /\ now' = now + d
                        /\ UNCHANGED <<mclock, wlog, pc>>
    /\ UNCHANGED <<store, mergeVars, relays, relayRec, run, shown>>

\* _handle_relay_responses: one turn of the while loop. The REQ of
\* _verify_event_storage follows the loop; on a closed connection it raises.
ResponseTurn ==
    /\ pc = "responses"
    /\ IF now - mclock >= Ticks(ResponseWindow)
       THEN /\ LoopLeft("responses", now, "verify")
            /\ UNCHANGED <<ops, results>>
       ELSE \/ /\ LoopLeft("responses", now + Ticks(ResponseRecvTimeout), "verify")
               /\ UNCHANGED <<ops, results>>
            \/ \E d \in 0..Ticks(ResponseRecvTimeout), f \in WindowFrames(run.event) :
                LET o == ResponseTurnBody(f, results[1], run.event) IN
                    /\ Arrives(d, ResponseRecvTimeout)
                    /\ results' = <<o.res>>
                    /\ IF o.ends
                       THEN LoopLeft("responses", now + d,
                                     IF f.type = "conn_closed" THEN "session_over" ELSE "verify")
                       ELSE /\ now' = now + d
                            /\ UNCHANGED <<mclock, wlog, pc>>
    /\ UNCHANGED <<store, mergeVars, relays, relayRec, run, shown>>

\* _verify_event_storage: one turn of the while loop
VerifyTurn ==
    /\ pc = "verify"
    /\ IF now - mclock >= Ticks(VerifyWindow)
       THEN /\ LoopLeft("verify", now, "session_over")
            /\ UNCHANGED <<ops, results>>
       ELSE \/ /\ LoopLeft("verify", now + Ticks(VerifyRecvTimeout), "session_over")
               /\ UNCHANGED <<ops, results>>
            \/ \E d \in 0..Ticks(VerifyRecvTimeout), f \in WindowFrames(run.event) :
                LET o == VerifyTurnBody(f, results[1], run.event) IN
                    /\ Arrives(d, VerifyRecvTimeout)
                    /\ results' = <<o.res>>
                    /\ IF o.ends
                       THEN LoopLeft("verify", now + d, "session_over")
                       ELSE /\ now' = now + d
                            /\ UNCHANGED <<mclock, wlog, pc>>
    /\ UNCHANGED <<store, mergeVars, relays, relayRec, run, shown>>

NextWindow ==
    \/ ResponseTurn
    \/ VerifyTurn

\* The coroutine is run to its end: a turn that can be taken is taken.
SpecWindow == InitWindow /\ [][NextWindow]_vars /\ WF_vars(NextWindow)

----------------------------------------------------------------------------
(* One RelayManager, several publish_event calls, get_summary after each *)

SummaryScripts(ev) ==
    AcceptScripts(ev)
    \cup {Script("timeout", FALSE, <<>>, <<>>),
          Script("ok", FALSE, <<At(0, ClosedFrame(NoSub, "shutting down"))>>, <<>>)}

\* RelayManager(): self.results = []
InitSummary ==
    /\ now = 0
    /\ mclock = 0
    /\ store = {}
    /\ mE = <<>>
    /\ mP = P1
    /\ mres = NoRes
    /\ relays = <<>>
    /\ relayRec = [r \in RelayNames |-> NoEvent]
    /\ pc = "summary_idle"
    /\ ops = 0
    /\ run = IdleRun
    /\ results = <<>>
    /\ shown = {}
    /\ wlog = <<>>

\* Faulty variant: self.results is not emptied at the start of a call
SummaryCallKeepsResults ==
    /\ pc \in {"summary_idle", "summary_done"}
    /\ ops < MaxOps
    /\ ops' = ops + 1
    /\ \E urls \in RelayLists :
        /\ relays' = urls
        /\ run' = [IdleRun EXCEPT !.event = RelayEvent(urls)]
    /\ results' = results
    /\ mres' = NoRes
    /\ pc' = "summary_loop"
    /\ UNCHANGED <<now, mclock, store, mE, mP, relayRec, shown, wlog>>

\* publish_event(event, relays) is called: self.results = []
SummaryCall ==
    /\ pc \in {"summary_idle", "summary_done"}
    /\ ops < MaxOps
    /\ ops' = ops + 1
    /\ \E urls \in RelayLists :
        /\ relays' = urls
        /\ run' = [IdleRun EXCEPT !.event = RelayEvent(urls)]
    /\ results' = <<>>
    /\ mres' = NoRes
    /\ pc' = "summary_loop"
    /\ UNCHANGED <<now, mclock, store, mE, mP, relayRec, shown, wlog>>

\* publish_event: one turn of `for relay in relays`
SummaryOne ==
    /\ pc = "summary_loop"
    /\ Len(run.scripts) < Len(relays)
    /\ \E sc \in SummaryScripts(run.event) :
        LET s == PublishSession(run.event, NewRelayResult(relays[Len(run.scripts) + 1]), sc) IN
            /\ results' = Append(results, s.res)
            /\ run' = [run EXCEPT !.scripts = Append(@, sc), !.out = Append(@, s.out)]
    /\ UNCHANGED <<now, mclock, store, mergeVars, storeVars, relays, relayRec, pc, ops, shown>>

\* publish_event returns, and get_summary() is called
SummaryReturn ==
    /\ pc = "summary_loop"
    /\ Len(run.scripts) = Len(relays)
    /\ LET g == GetSummary(results) IN
        mres' = [called |-> TRUE, total |-> g.total, connected |-> g.connected,
                 published |-> g.published, verified |-> g.verified]
    /\ pc' = "summary_done"
    /\ UNCHANGED <<now, mclock, store, mE, mP, storeVars, relays, relayRec, ops, run,
                   results, shown>>

NextSummary ==
    \/ SummaryCall
    \/ SummaryOne
    \/ SummaryReturn

SpecSummary == InitSummary /\ [][NextSummary]_vars

----------------------------------------------------------------------------
(* cleanup_old_backups step by step, with another process that deletes
   snapshots of the same directory *)

\* n snapshots, written one a second
SnapshotsWritten(n) == {BackupFile(<<P1>>, PreMergePrefix, k, k) : k \in 1..n}

\* the files of `listed` from the oldest on, all but the `keep` newest:
\* backup_files[self.max_backups:] after the sort, read from its end
RECURSIVE OldestFirst(_, _)
OldestFirst(listed, keep) ==
    IF Cardinality(listed) <= keep THEN <<>>
    ELSE LET f == CHOOSE g \in listed : \A h \in listed : g.mtime <= h.mtime
         IN  <<f>> \o OldestFirst(listed \ {f}, keep)

\* files_to_delete, in the order of the loop: newest of them first
RECURSIVE Reversed(_)
Reversed(q) == IF q = <<>> THEN <<>> ELSE Append(Reversed(Tail(q)), Head(q))

FilesToDelete(listed) == Reversed(OldestFirst(listed, MaxBackups))

InitPrune ==
    /\ now = 0
    /\ mclock = 0
    /\ \E n \in 0..(MaxBackups + MaxSurplus) : store = SnapshotsWritten(n)
    /\ mE = <<>>
    /\ mP = P1
    /\ mres = NoRes
    /\ relays = <<>>
    /\ relayRec = <<>>
    /\ pc = "prune_start"
    /\ ops = 0
    /\ run = IdleRun
    /\ results = <<>>
    /\ shown = {}
    /\ wlog = <<>>

\* backup_files = list(self.backup_dir.glob("profile_badges_*.json"))
PruneList ==
    /\ pc = "prune_start"
    /\ shown' = store
    /\ pc' = "prune_listed"
    /\ UNCHANGED <<now, mclock, store, mergeVars, storeVars, relays, relayRec, ops, run, results>>

\* backup_files.sort(key=st_mtime, reverse=True); files_to_delete = the rest
\* after max_backups. stat() of a file that is gone raises, and the except
\* branch ends the call.
PruneSort ==
    /\ pc = "prune_listed"
    /\ IF shown \subseteq store
       THEN /\ wlog' = FilesToDelete(shown)
            /\ pc' = "prune_deleting"
            /\ UNCHANGED run
       ELSE /\ run' = [run EXCEPT !.error = "FileNotFoundError", !.raisedAt = "stat"]
            /\ pc' = "prune_done"
            /\ UNCHANGED wlog
    /\ UNCHANGED <<now, mclock, store, mergeVars, relays, relayRec, ops, results, shown>>

\* One turn of `for file_path in files_to_delete: file_path.unlink()`.
\* unlink() of a file that is gone raises, and the except branch ends the call.
PruneUnlink ==
    /\ pc = "prune_deleting"
    /\ IF wlog = <<>>
       THEN /\ pc' = "prune_done"
            /\ UNCHANGED <<store, wlog, run>>
       ELSE IF Head(wlog) \in store
       THEN /\ store' = store \ {Head(wlog)}
            /\ wlog' = Tail(wlog)
            /\ UNCHANGED <<pc, run>>
       ELSE /\ run' = [run EXCEPT !.error = "FileNotFoundError", !.raisedAt = "unlink"]
            /\ pc' = "prune_done"
            /\ UNCHANGED <<store, wlog>>
    /\ UNCHANGED <<now, mclock, mergeVars, relays, relayRec, ops, results, shown>>

\* another process deletes a snapshot the listing holds
OtherProcessDeletes ==
    /\ pc \in {"prune_listed", "prune_deleting"}
    /\ ops < MaxOps
    /\ ops' = ops + 1
    /\ \E f \in store : store' = store \ {f}
    /\ UNCHANGED <<now, mclock, mergeVars, storeVars, relays, relayRec, pc, run, results, shown>>

NextPrune ==
    \/ PruneList
    \/ PruneSort
    \/ PruneUnlink
    \/ OtherProcessDeletes

SpecPrune == InitPrune /\ [][NextPrune]_vars

----------------------------------------------------------------------------
(* Two accept_badge processes of one owner, on one relay and one backup
   directory *)

Procs == {"pA", "pB"}

\* the pair each process accepts
PairOf(p) == IF p = "pA" THEN P2 ELSE P3

TheRelay == AllRelays[1]

\* The relay keeps one record per owner and discriminator: an event replaces
\* the one it holds unless it was created before it.
RelayTakes(held, ev) == IF held # NoEvent /\ ev.created_at < held.created_at THEN held ELSE ev

InitRace ==
    /\ now = 0
    /\ mclock = 0
    /\ store = {}
    /\ mE = <<>>
    /\ mP = P1
    /\ mres = NoRes
    /\ relays = <<TheRelay>>
    /\ \E rec \in {NoEvent, RecordAt(TheRelay)} : relayRec = [r \in RelayNames |-> rec]
    /\ pc = [p \in Procs |-> "fetch"]
    /\ ops = 0
    /\ run = [p \in Procs |-> [IdleRun EXCEPT !.newPair = PairOf(p)]]
    /\ results = <<>>
    /\ shown = {}
    /\ wlog = <<>>

\* accept_badge, steps 1 and 2
RaceFetch(p) ==
    /\ pc[p] = "fetch"
    /\ \E answering \in SUBSET {TheRelay} :
        LET ev == FetchExistingProfileBadges(relays, relayRec, answering)
            parsed == IF ev = NoEvent THEN [raised |-> FALSE, pairs |-> <<>>]
                      ELSE ParseProfileBadgesPairs(ev.tags)
        IN  IF parsed.raised
            THEN /\ run' = [run EXCEPT ![p].error = "IndexError", ![p].raisedAt = "parse",
                                       ![p].status = "failed"]
                 /\ pc' = [pc EXCEPT ![p] = "done"]
            ELSE /\ run' = [run EXCEPT ![p].existing = parsed.pairs, ![p].fetched = ev]
                 /\ pc' = [pc EXCEPT ![p] = "merge"]
    /\ UNCHANGED <<now, mclock, store, mergeVars, storeVars, relays, relayRec, ops, results, shown>>

\* accept_badge, steps 3 and 4
RaceMerge(p) ==
    /\ pc[p] = "merge"
    /\ \E r \in MergeBadgePairs(run[p].existing, run[p].newPair, store, mclock, now) :
        /\ store' = r.store
        /\ mclock' = r.mclock
        /\ IF ~r.ok
           THEN /\ run' = [run EXCEPT ![p].status = "merge_failed", ![p].error = r.err]
                /\ pc' = [pc EXCEPT ![p] = "done"]
           ELSE /\ run' = [run EXCEPT ![p].merged = r.pairs]
                /\ pc' = [pc EXCEPT ![p] = "backup"]
    /\ UNCHANGED <<now, mergeVars, storeVars, relays, relayRec, ops, results, shown>>

\* accept_badge, steps 5 and 6, in the second of the step before or the next
RaceBackup(p) ==
    /\ pc[p] = "backup"
    /\ \E dt \in {0, 1} :
        /\ now' = now + dt
        /\ LET ev == CreateMergedProfileBadgesEvent(run[p].merged, relays, now') IN
            \E w \in CreateBackup(store, mclock, run[p].merged, Prefix8(EventId(ev)), now') :
                /\ run' = [run EXCEPT ![p].event = ev,
                                      ![p].prePublish = IF w.ok THEN "written" ELSE "failed"]
                /\ store' = w.store
                /\ mclock' = w.mclock
    /\ pc' = [pc EXCEPT ![p] = "publish"]
    /\ UNCHANGED <<mergeVars, storeVars, relays, relayRec, ops, results, shown>>

\* Faulty variant: the record is fetched again before publishing, and the
\* process gives up when it is not the one the merge was computed from
RacePublishComparesFirst(p) ==
    /\ pc[p] = "publish"
    /\ IF relayRec[TheRelay] # run[p].fetched
       THEN /\ run' = [run EXCEPT ![p].status = "failed", ![p].error = "stale"]
            /\ UNCHANGED <<relayRec, wlog, store>>
       ELSE LET ev == run[p].event
                sc == Script("ok", TRUE, <<At(0, OkFrame(EventId(ev), TRUE, ""))>>,
                             <<At(0, EventFrame(VerifySub(ev), ev))>>)
                rs == PublishEvent(ev, relays, <<sc>>)
            IN  /\ relayRec' = [relayRec EXCEPT ![TheRelay] = ev]
                /\ wlog' = Append(wlog, [proc |-> p, event |-> ev, held |-> relayRec[TheRelay]])
                /\ run' = [run EXCEPT ![p].status = "success", ![p].published = TRUE]
                /\ \E st \in CleanupOldBackups(store) : store' = st
    /\ pc' = [pc EXCEPT ![p] = "done"]
    /\ UNCHANGED <<now, mclock, mergeVars, relays, ops, results, shown>>

\* accept_badge, steps 7 to 9. The relay acknowledges; it answers the
\* verification REQ with the event if that is the record it holds now.
RacePublish(p) ==
    /\ pc[p] = "publish"
    /\ LET ev == run[p].event
           kept == RelayTakes(relayRec[TheRelay], ev)
           sc == Script("ok", kept = ev, <<At(0, OkFrame(EventId(ev), TRUE, ""))>>,
                        IF kept = ev THEN <<At(0, EventFrame(VerifySub(ev), ev))>>
                        ELSE <<At(0, EoseFrame(VerifySub(ev)))>>)
           rs == PublishEvent(ev, relays, <<sc>>)
       IN  /\ relayRec' = [relayRec EXCEPT ![TheRelay] = kept]
           /\ wlog' = Append(wlog, [proc |-> p, event |-> ev, held |-> relayRec[TheRelay]])
           /\ IF VerifiedCount(rs) > 0
              THEN /\ \E st \in CleanupOldBackups(store) : store' = st
                   /\ run' = [run EXCEPT ![p].status = "success", ![p].published = TRUE]
              ELSE /\ run' = [run EXCEPT ![p].status = "published_unverified",
                                         ![p].published = TRUE]
                   /\ UNCHANGED store
    /\ pc' = [pc EXCEPT ![p] = "done"]
    /\ UNCHANGED <<now, mclock, mergeVars, relays, ops, results, shown>>

NextRace ==
    \E p \in Procs :
        \/ RaceFetch(p)
        \/ RaceMerge(p)
        \/ RaceBackup(p)
        \/ RacePublish(p)

SpecRace == InitRace /\ [][NextRace]_vars

----------------------------------------------------------------------------
(* A record built by create_merged_profile_badges_event and read back by
   parse_profile_badges_pairs *)

\* well-formed pairs
EncodePairs == {P1, P2, P3}

InitRoundTrip ==
    /\ now = 0
    /\ mclock = 0
    /\ store = {}
    /\ mE \in SeqsUpTo(EncodePairs, MaxLen)
    /\ mP = P1
    /\ mres = NoRes
    /\ relays \in RelayLists
    /\ relayRec = [r \in RelayNames |-> NoEvent]
    /\ pc = "encode"
    /\ ops = 0
    /\ run = IdleRun
    /\ results = <<>>
    /\ shown = {}
    /\ wlog = <<>>

\* create_merged_profile_badges_event(badge_pairs, relay_urls)
EncodeRecord ==
    /\ pc = "encode"
    /\ run' = [run EXCEPT !.event = CreateMergedProfileBadgesEvent(mE, relays, now)]
    /\ pc' = "encoded"
    /\ UNCHANGED <<now, mclock, store, mergeVars, storeVars, relays, relayRec, ops, results, shown>>

\* parse_profile_badges_pairs(event["tags"])
DecodeRecord ==
    /\ pc = "encoded"
    /\ LET parsed == ParseProfileBadgesPairs(run.event.tags) IN
        mres' = [called |-> TRUE, ok |-> ~parsed.raised, err |-> "", pairs |-> parsed.pairs,
                 before |-> store]
    /\ pc' = "decoded"
    /\ UNCHANGED <<now, mclock, store, mE, mP, storeVars, relays, relayRec, ops, run, results, shown>>

NextRoundTrip ==
    \/ EncodeRecord
    \/ DecodeRecord

SpecRoundTrip == InitRoundTrip /\ [][NextRoundTrip]_vars

----------------------------------------------------------------------------
(* badge_manager.py: publish_definition_if_missing and its local cache,
   data/published_definitions.json *)

Issuer == "issuer"          \* issuer_hex

\* the badges of badges/definitions: their 'd' and 'name' tags
Badges == {[d |-> "first", name |-> "First"], [d |-> "second", name |-> "Second"]}

\* key = f"{issuer_hex}:{identifier}"
DbKey(badge) == <<Issuer, badge.d>>

\* sign_event(definition_event, issuer_nsec) at second t
DefinitionEvent(badge, t) ==
    [kind |-> DefinitionKind, pubkey |-> Issuer, created_at |-> t,
     tags |-> <<(<<"d", badge.d>>), (<<"name", badge.name>>), (<<"description", "">>)>>]

\* The cache is a set of entries, one for a key. `key in db`:
InDb(db, key) == \E e \in db : e.key = key

\* db[key]
DbGet(db, key) == (CHOOSE e \in db : e.key = key).event

\* db[key] = ev; _save_published_db(db)
DbPut(db, key, ev) == {e \in db : e.key # key} \cup {[key |-> key, event |-> ev]}

\* What a relay may send once it has the REQ for the definition of a badge
DefAnswerItems(sub, badge) ==
    {At(0, EventFrame(sub, DefinitionEvent(badge, 0))),
     At(0, EventFrame(sub, NoEvent)),
     At(0, EventFrame(OtherSub, DefinitionEvent(badge, 0))),
     At(0, EoseFrame(sub)),
     At(0, ConnClosed),
     At(2, EventFrame(sub, DefinitionEvent(badge, 0)))}

DefScripts(sub, badge) ==
    {Script("refused", FALSE, <<>>, <<>>)}
    \cup {Script("ok", FALSE, <<>>, an) : an \in SeqsUpTo(DefAnswerItems(sub, badge), MaxAnswer)}

\* What one call did: the frames it sent, what the relay query returned, how
\* many relays verified the publish, and what it returned
CallLog(key, status, cached, reqs, events, found, event, verified) ==
    [key |-> key, status |-> status, cached |-> cached, reqs |-> reqs, events |-> events,
     found |-> found, event |-> event, verified |-> verified]

\* the REQ frames the relay query sent
ReqsSent(out) == Cardinality({i \in 1..Len(out) : out[i] # <<>>})

\* _load_published_db() when there is no file yet: {}
InitDefinition ==
    /\ now = 0
    /\ mclock = 0
    /\ store = {}
    /\ mE = <<>>
    /\ mP = CHOOSE b \in Badges : TRUE
    /\ mres = NoRes
    /\ relays = <<>>
    /\ relayRec = [r \in RelayNames |-> NoEvent]
    /\ pc = "def_idle"
    /\ ops = 0
    /\ run = IdleRun
    /\ results = <<>>
    /\ shown = {}
    /\ wlog = <<>>

\* publish_definition_if_missing(badge, ...) is called, a second or more after
\* the call before it. Step 1: the cache
DefCall ==
    /\ pc = "def_idle"
    /\ ops < MaxOps
    /\ ops' = ops + 1
    /\ now' = now + 1
    /\ \E b \in Badges, urls \in RelayLists :
        /\ mP' = b
        /\ relays' = urls
        /\ IF InDb(shown, DbKey(b))
           THEN /\ wlog' = Append(wlog, CallLog(DbKey(b), "exists", TRUE, 0, 0, NoEvent,
                                                DbGet(shown, DbKey(b)), 0))
                /\ run' = IdleRun
                /\ pc' = "def_idle"
           ELSE /\ wlog' = wlog
                /\ run' = [IdleRun EXCEPT !.query = "definition"]
                /\ pc' = "def_query"
    /\ results' = <<>>
    /\ UNCHANGED <<mclock, store, mE, mres, relayRec, shown>>

\* _query_relays_for_definition: one turn of `for relay in relay_urls`. The
\* answers arrive at once or not before the read timeout, so the window the
\* caller passes (timeout=3) is never what ends the loop.
DefQueryOne ==
    /\ pc = "def_query"
    /\ Len(run.out) < Len(relays)
    /\ LET sub == DefSub(now) IN
        \E sc \in DefScripts(sub, mP) :
            LET q == QuerySingle(sc, sub) IN
                /\ run' = [run EXCEPT !.out = Append(@, IF sc.connect = "ok" THEN <<"REQ">> ELSE <<>>),
                                      !.fetched = q.ev]
                /\ pc' = IF q.hit THEN "def_queried" ELSE pc
    /\ UNCHANGED <<now, mclock, store, mergeVars, storeVars, relays, relayRec, ops, results, shown>>

\* _query_relays_for_definition: `return None` after the loop
DefQueryNone ==
    /\ pc = "def_query"
    /\ Len(run.out) = Len(relays)
    /\ run' = [run EXCEPT !.fetched = NoEvent]
    /\ pc' = "def_queried"
    /\ UNCHANGED <<now, mclock, store, mergeVars, storeVars, relays, relayRec, ops, results, shown>>

\* step 2, `if existing:` the record is cached and returned
DefExists ==
    /\ pc = "def_queried"
    /\ run.fetched # NoEvent
    /\ shown' = DbPut(shown, DbKey(mP), run.fetched)
    /\ wlog' = Append(wlog, CallLog(DbKey(mP), "exists", FALSE, ReqsSent(run.out), 0,
                                    run.fetched, NoEvent, 0))
    /\ run' = IdleRun
    /\ pc' = "def_idle"
    /\ UNCHANGED <<now, mclock, store, mergeVars, relays, relayRec, ops, results>>

\* step 3: the definition record is made and signed; relay_manager = RelayManager()
DefSign ==
    /\ pc = "def_queried"
    /\ run.fetched = NoEvent
    /\ run' = [run EXCEPT !.event = DefinitionEvent(mP, now), !.scripts = <<>>]
    /\ results' = <<>>
    /\ pc' = "def_publish"
    /\ UNCHANGED <<now, mclock, store, mergeVars, storeVars, relays, relayRec, ops, shown>>

\* relay_manager.publish_event(signed, relay_urls): one turn of its loop
DefPublishOne ==
    /\ pc = "def_publish"
    /\ Len(results) < Len(relays)
    /\ \E sc \in SummaryScripts(run.event) :
        LET s == PublishSession(run.event, NewRelayResult(relays[Len(results) + 1]), sc) IN
            /\ results' = Append(results, s.res)
            /\ run' = [run EXCEPT !.scripts = Append(@, s.out)]
    /\ UNCHANGED <<now, mclock, store, mergeVars, storeVars, relays, relayRec, pc, ops, shown>>

\* the EVENT frames publish_event sent
EventsSent(outs) == Cardinality({i \in 1..Len(outs) : outs[i] # <<>>})

\* Faulty variant: the record is cached whether a relay verified it or not
DefPublishReturnCachesUnverified ==
    /\ pc = "def_publish"
    /\ Len(results) = Len(relays)
    /\ LET verified_count == GetSummary(results).verified IN
        /\ shown' = DbPut(shown, DbKey(mP), run.event)
        /\ wlog' = Append(wlog, CallLog(DbKey(mP),
                                        IF verified_count > 0 THEN "published"
                                        ELSE "published_unverified",
                                        FALSE, ReqsSent(run.out), EventsSent(run.scripts),
                                        NoEvent, run.event, verified_count))
    /\ run' = IdleRun
    /\ results' = <<>>
    /\ pc' = "def_idle"
    /\ UNCHANGED <<now, mclock, store, mergeVars, relays, relayRec, ops>>

\* verified_count = sum(1 for r in results if r.verified), and the return
DefPublishReturn ==
    /\ pc = "def_publish"
    /\ Len(results) = Len(relays)
    /\ LET verified_count == GetSummary(results).verified IN
        /\ shown' = IF verified_count > 0 THEN DbPut(shown, DbKey(mP), run.event) ELSE shown
        /\ wlog' = Append(wlog, CallLog(DbKey(mP),
                                        IF verified_count > 0 THEN "published"
                                        ELSE "published_unverified",
                                        FALSE, ReqsSent(run.out), EventsSent(run.scripts),
                                        NoEvent, run.event, verified_count))
    /\ run' = IdleRun
    /\ results' = <<>>
    /\ pc' = "def_idle"
    /\ UNCHANGED <<now, mclock, store, mergeVars, relays, relayRec, ops>>

NextDefinition ==
    \/ DefCall
    \/ DefQueryOne
    \/ DefQueryNone
    \/ DefExists
    \/ DefSign
    \/ DefPublishOne
    \/ DefPublishReturn

SpecDefinition == InitDefinition /\ [][NextDefinition]_vars

----------------------------------------------------------------------------
(* Two managers, each made for its own recipient key, in one working
   directory: self.backup_dir = Path("badge_backups") is the same for both *)

\* create_backup of the manager made for `owner`: "recipient_hex" is its key
CreateBackupOf(owner, st, mc, pairs, prefix, t) ==
    {IF w.ok
     THEN [w EXCEPT !.store = {IF f.key = <<t, prefix>> THEN [f EXCEPT !.owner = owner] ELSE f :
                                f \in w.store}]
     ELSE w : w \in CreateBackup(st, mc, pairs, prefix, t)}

\* the pairs each recipient has accepted
PairsOf(owner) == IF owner = Owner THEN <<P1>> ELSE <<P2>>

\* the existing pairs merge_badge_pairs is called with: valid, or with a pair
\* that fails validation
OwnerExisting == {<<P1>>, <<PBadA>>}

InitOwners ==
    /\ now = 0
    /\ mclock = 0
    /\ store = {}
    /\ mE = <<>>
    /\ mP = P3
    /\ mres = NoRes
    /\ relays = <<>>
    /\ relayRec = <<>>
    /\ pc = "owners"
    /\ ops = 0
    /\ run = IdleRun
    /\ results = <<>>
    /\ shown = {}
    /\ wlog = <<>>

\* create_backup(badge_pairs, event_id) of either manager, in the second of the
\* call before or in the next one
OwnerBackup(owner) ==
    /\ ops < MaxOps
    /\ ops' = ops + 1
    /\ \E dt \in {0, 1} :
        /\ now' = now + dt
        /\ LET pairs == PairsOf(owner)
               id == EventId([CreateMergedProfileBadgesEvent(pairs, <<>>, now')
                                EXCEPT !.pubkey = owner])
           IN  \E w \in CreateBackupOf(owner, store, mclock, pairs, Prefix8(id), now') :
                /\ store' = w.store
                /\ mclock' = w.mclock
    /\ mres' = NoRes
    /\ pc' = "owners"
    /\ UNCHANGED <<mE, mP, relays, relayRec, run, results, shown, wlog>>

\* merge_badge_pairs(existing_pairs, new_pair) of the manager made for Owner
\* with the store as the calls before left it; shown keeps that store
OwnerMerge ==
    /\ ops < MaxOps
    /\ ops' = ops + 1
    /\ \E E \in OwnerExisting :
        /\ mE' = E
        /\ \E r \in MergeBadgePairs(E, mP, store, mclock, now) :
            /\ mres' = [called |-> TRUE, ok |-> r.ok, err |-> r.err, pairs |-> r.pairs]
            /\ store' = r.store
            /\ mclock' = r.mclock
    /\ shown' = store
    /\ pc' = "owner_merged"
    /\ UNCHANGED <<now, mP, relays, relayRec, run, results, wlog>>

\* accept_badge of the manager made for Owner raises, and its `except` asks
\* load_latest_backup for the pairs to report
OwnerRecover ==
    /\ ops < MaxOps
    /\ ops' = ops + 1
    /\ \E b \in LoadLatestBackup(store) :
        mres' = [called |-> TRUE, ok |-> Truthy(b), err |-> "", pairs |-> b.pairs]
    /\ shown' = store
    /\ pc' = "owner_recovered"
    /\ UNCHANGED <<now, mclock, store, mE, mP, relays, relayRec, run, results, wlog>>

NextOwners ==
    \/ OwnerBackup(Owner)
    \/ OwnerBackup(OtherOwner)
    \/ OwnerMerge
    \/ OwnerRecover

SpecOwners == InitOwners /\ [][NextOwners]_vars

----------------------------------------------------------------------------
(* Claims about merge_badge_pairs, checked under SpecMerge *)

IsValid(p) == ValidateBadgePair(p).ok
AllValid(E) == \A i \in 1..Len(E) : IsValid(E[i])
NoDup(E) == \A i, j \in 1..Len(E) : E[i] = E[j] => i = j
Occurs(p, E) == \E i \in 1..Len(E) : E[i] = p

\* C2: whenever merge_badge_pairs(E, P) reports success, the list it returns is
\* at least as long as the list E the caller passed in.
C2_MergeNoLoss ==
    (mres.called /\ mres.ok) => Len(mres.pairs) >= Len(mE)

\* C3 as stated: for every list E of valid pairs and every valid P not in E,
\* the merge succeeds and returns E followed by P.
C3_AppendsNewPair_Original ==
    (mres.called /\ AllValid(mE) /\ IsValid(mP) /\ ~Occurs(mP, mE))
        => (mres.ok /\ mres.pairs = Append(mE, mP))

\* C3 amended: for every duplicate-free list E of valid pairs and every valid P
\* not in E, the merge succeeds and returns E followed by P (length len(E)+1).
C3_AppendsNewPair ==
    (mres.called /\ AllValid(mE) /\ NoDup(mE) /\ IsValid(mP) /\ ~Occurs(mP, mE))
        => (mres.ok /\ mres.pairs = Append(mE, mP) /\ Len(mres.pairs) = Len(mE) + 1)

C3_Witness ==
    /\ mres.called /\ mres.ok
    /\ AllValid(mE) /\ NoDup(mE) /\ Len(mE) >= 2
    /\ IsValid(mP) /\ ~Occurs(mP, mE)
    /\ mres.pairs = Append(mE, mP)

\* C4 as stated: for every list E of valid pairs and every P that occurs in E,
\* the merge succeeds and returns a list of length len(E) with E's order.
C4_KeepsExistingPair_Original ==
    (mres.called /\ AllValid(mE) /\ Occurs(mP, mE))
        => (mres.ok /\ Len(mres.pairs) = Len(mE) /\ mres.pairs = mE)

\* C4 amended: for every duplicate-free list E of valid pairs and every P that
\* occurs in E, the merge succeeds and returns E itself: length len(E), every
\* pair at its original position, nothing appended.
C4_KeepsExistingPair ==
    (mres.called /\ AllValid(mE) /\ NoDup(mE) /\ Occurs(mP, mE))
        => (mres.ok /\ Len(mres.pairs) = Len(mE) /\ mres.pairs = mE)

C4_Witness ==
    /\ mres.called /\ mres.ok
    /\ AllValid(mE) /\ NoDup(mE) /\ Len(mE) >= 2
    /\ mP = mE[1]
    /\ mres.pairs = mE

\* C11: when the new pair is invalid, merge_badge_pairs reports failure and
\* returns exactly the existing list it was given, whether or not that list
\* was itself valid.
C11_InvalidNewKeepsExisting ==
    (mres.called /\ ~IsValid(mP)) => (~mres.ok /\ mres.pairs = mE)

\* the pairs of the latest snapshot of store st, empty when there is none
SnapshotPairs(st) == {b.pairs : b \in LoadLatestBackup(st)}

\* C12: when the existing list holds an invalid pair (one without its award
\* reference included), merge_badge_pairs goes on with the pairs of the latest
\* snapshot, or with none when the store is empty, and the invalid existing
\* pairs do not make it fail: with a valid new pair it returns those pairs
\* merged with the new pair.
C12_InvalidExistingRecovered ==
    (mres.called /\ ~AllValid(mE) /\ IsValid(mP)) =>
        \E base \in SnapshotPairs(mres.before) :
            mres.ok /\ mres.pairs = Dedup(Append(base, mP))

----------------------------------------------------------------------------
(* Claims about validate_badge_pair, checked under SpecValidate *)

\* exactly 64 characters, each a digit or one of a..f
LowerHex64(s) == Len(s) = HexLen /\ \A i \in 1..Len(s) : s[i] \in HexDigits

\* 30009:<64 lowercase hex>:<identifier>, the identifier not empty
DefinitionRef(a) ==
    /\ Len(a) > Len(KindPrefix) + HexLen + 1
    /\ SubSeq(a, 1, Len(KindPrefix)) = KindPrefix
    /\ LowerHex64(SubSeq(a, Len(KindPrefix) + 1, Len(KindPrefix) + HexLen))
    /\ a[Len(KindPrefix) + HexLen + 1] = ":"
    /\ \A i \in (Len(KindPrefix) + HexLen + 2)..Len(a) : a[i] # ":"

\* C25: validate_badge_pair accepts a pair exactly when the definition
\* reference is 30009:<64 lowercase hex>:<non-empty identifier> and the award
\* reference is 64 lowercase hex characters; uppercase hex is rejected.
C25_AcceptsExactlyLowercaseHex ==
    pc = "validated" =>
        (mres.ok <=> (DefinitionRef(StrOf(mP[1])) /\ LowerHex64(StrOf(mP[2]))))

----------------------------------------------------------------------------
(* Claims about accept_badge, checked under SpecAccept *)

\* C1: once a call that returned success published a record containing pair p,
\* the record every later call publishes contains p.
C1_NoBadgeDropped ==
    run.sent # {} => shown \subseteq PairSet(run.merged)

\* the snapshots create_backup(merged_pairs, event id) wrote for this call
RunSnapshots == {f \in store : f.key[2] = Prefix8(EventId(run.event))}

\* C5: when a publish frame was sent to some relay, the Backup Store holds the
\* snapshot this call wrote before publishing.
C5_BackupPrecedesPublish ==
    (pc = "check" /\ run.sent # {}) => RunSnapshots # {}

C7_SuccessIffVerified ==
    pc = "done" =>
        /\ (run.status = "success") <=> (\E i \in 1..Len(results) : results[i].verified)
        /\ (run.published /\ \A i \in 1..Len(results) : ~results[i].verified)
                => run.status = "published_unverified"

C7_Witness ==
    /\ pc = "done"
    /\ run.status = "success"
    /\ \E i \in 1..Len(results) : results[i].verified /\ ~results[i].published
    /\ \E i \in 1..Len(results) : ~results[i].verified /\ results[i].published

\* C8: when accept_badge returns published_unverified, the record was sent to
\* at least one relay.
C8_UnverifiedMeansSent ==
    (pc = "done" /\ run.status = "published_unverified") => run.sent # {}

\* C9: when a step raised, the call ends in recovered_from_backup (with the
\* error and the number of pairs of the latest snapshot) if the store holds a
\* snapshot, and in failed exactly when the store holds none.
C9_RecoveryOutcome ==
    (pc = "done" /\ run.raisedAt # "") =>
        /\ store # {} =>
            /\ run.status = "recovered_from_backup"
            /\ run.error = "IndexError"
            /\ \E b \in LoadLatestBackup(store) : run.recovered = Len(b.pairs)
        /\ (run.status = "failed") <=> (store = {})

\* C10: when merge_badge_pairs reports failure, accept_badge ends with
\* merge_failed and the merge error, having sent no publish frame, written no
\* pre-publish snapshot, pruned nothing and called the merge once.
C10_MergeFailedStops ==
    /\ run.mergeFailed =>
        /\ pc = "done"
        /\ run.status = "merge_failed"
        /\ run.error = run.mergeErr /\ run.mergeErr # ""
        /\ run.sent = {} /\ ~run.published /\ results = <<>>
        /\ run.prePublish = "none" /\ run.event = NoEvent
        /\ ~run.pruned
        /\ run.nMerge = 1
    /\ run.status = "merge_failed" => run.mergeFailed

C10_Witness ==
    /\ pc = "done"
    /\ run.mergeFailed
    /\ run.status = "merge_failed"
    /\ relays # <<>>
    /\ store # {}

\* C13: a snapshot is deleted only by the retention pruning of a call of
\* accept_badge that found a verified relay: no step of a call that ends in
\* published_unverified, merge_failed, recovered_from_backup or failed, and no
\* other step, makes a snapshot's file disappear.
C13_PruneOnlyOnVerified ==
    [][(\E f \in store : \A g \in store' : g.key # f.key)
            => (pc = "check" /\ VerifiedCount(results) > 0 /\ run'.status = "success")]_vars

C13_Witness ==
    /\ pc = "done"
    /\ run.status \in {"published_unverified", "merge_failed", "recovered_from_backup", "failed"}
    /\ Cardinality(store) > MaxBackups

\* C23: accept_badge(P1) and then accept_badge(P2), from no record on any relay
\* and an empty Backup Store: each call writes two snapshots, one before the
\* merge and one before publishing, and the second call publishes [P1, P2].
C23_TwoRunsTwoSnapshotsEach ==
    /\ (/\ ops = 1 /\ pc \in {"publish", "check"}
        /\ run.newPair = P1 /\ run.existing = <<>>
        /\ run.prePublish = "written" /\ store \cap EarlierSnapshots = {})
            => Cardinality(store) = 2
    /\ (/\ ops = 2 /\ pc \in {"publish", "check"}
        /\ run.newPair = P2 /\ run.existing = <<P1>>
        /\ run.prePublish = "written" /\ store \cap EarlierSnapshots = {})
            => (run.merged = <<P1, P2>> /\ RunSnapshots # {})

Statuses == {"success", "published_unverified", "merge_failed", "recovered_from_backup",
             "failed"}

\* C24: every call of accept_badge returns with one of the five statuses:
\* whatever step it is at, the call has a next step, and where it ends it has
\* set the status.
C24_AlwaysOneOfFiveStatuses ==
    /\ pc \in {"idle", "fetch", "merge", "backup", "publish", "check", "recover", "done"}
    /\ pc \in {"fetch", "merge", "backup", "publish", "check", "recover"} =>
            (run.status = "" /\ ENABLED NextAccept)
    /\ (pc = "done" /\ run # IdleRun) => run.status \in Statuses

C24_Witness ==
    /\ pc = "done"
    /\ run.raisedAt = "parse"
    /\ run.status = "failed"

----------------------------------------------------------------------------
(* Claims about the Backup Store, checked under SpecStore *)

\* the create_backup calls that returned True, in order
OkWrites == SelectSeq(wlog, LAMBDA e : e.ok)

Min(a, b) == IF a <= b THEN a ELSE b

\* the last n entries of a sequence
LastN(q, n) == SubSeq(q, Len(q) - n + 1, Len(q))

\* C14: after create_backup and cleanup_old_backups calls ending with
\* cleanup_old_backups, the store holds exactly min(w, 5) snapshots, w the
\* number of create_backup calls that wrote, and they are the ones written last.
C14_RetainsMinWritesFive ==
    pc = "pruned" =>
        LET n == Min(Len(OkWrites), MaxBackups)
            kept == LastN(OkWrites, n)
        IN  /\ Cardinality(store) = n
            /\ {<<f.key, f.pairs>> : f \in store}
                    = {<<kept[i].key, kept[i].pairs>> : i \in 1..n}

\* C15: load_latest_backup returns the pairs the most recent create_backup
\* call wrote, and none exactly when the store is empty, after any writes and
\* prunes, writes within one clock tick included.
C15_LatestIsLastWritten ==
    \A b \in LoadLatestBackup(store) :
        IF OkWrites = <<>> THEN ~b.some
        ELSE b.some /\ b.pairs = OkWrites[Len(OkWrites)].pairs

\* C16: snapshots are write-once: a create_backup call leaves every snapshot
\* written before it in the store, under its key and with its pairs.
C16_WriteOnce ==
    [][pc' = "written" =>
            \A f \in store : \E g \in store' : g.key = f.key /\ g.pairs = f.pairs]_vars

----------------------------------------------------------------------------
(* Claims about publish_event, checked under SpecRelay *)

\* C17: publish_event returns one outcome per relay, in the order supplied;
\* every relay is attempted whatever happened on the earlier ones, and each
\* outcome is what that relay's own session gives, at every later moment too.
C17_OneOutcomePerEndpoint ==
    /\ Len(results) <= Len(relays)
    /\ pc = "relay_done" => Len(results) = Len(relays)
    /\ \A i \in 1..Len(results) :
        /\ results[i].relay = relays[i]
        /\ results[i] = PublishToSingleRelay(run.event, NewRelayResult(relays[i]),
                                             run.scripts[i])

C17_Witness ==
    /\ pc = "relay_done"
    /\ Len(results) = 2
    /\ ~results[1].connected /\ results[1].error # NoError
    /\ results[2].connected /\ results[2].published /\ results[2].verified

\* the relay has not closed the connection when the response loop is left
StaysOpen(sc) ==
    \A k \in 1..Len(sc.stream) : sc.stream[k].f.type # "conn_closed"

\* C18: on every relay the EVENT frame was sent to, the verification REQ is
\* issued next on the same connection, whether the relay accepted, rejected or
\* did not acknowledge; it reaches the relay unless the relay closed the
\* connection.
C18_VerifyWhateverAck ==
    \A i \in 1..Len(results) :
        results[i].connected =>
            /\ Len(run.out[i]) = 2
            /\ run.out[i][1] = "EVENT"
            /\ run.out[i][2] \in {"REQ", "REQ raised"}
            /\ StaysOpen(run.scripts[i]) => run.out[i][2] = "REQ"

C18_Witness ==
    \E i \in 1..Len(results) :
        /\ results[i].error[1] = "Relay rejected"
        /\ ~results[i].published
        /\ run.out[i] = <<"EVENT", "REQ">>
        /\ results[i].verified

\* the relay acknowledges with accepted = true and sends nothing that rejects
\* or closes
Accepts(sc, ev) ==
    /\ sc.connect = "ok"
    /\ \E k \in 1..Len(sc.stream) :
        sc.stream[k] = At(0, OkFrame(EventId(ev), TRUE, ""))
    /\ \A k \in 1..Len(sc.stream) :
        /\ sc.stream[k].d = 0
        /\ sc.stream[k].f.type \in {"OK", "NOTICE"}
        /\ sc.stream[k].f.type = "OK" => sc.stream[k].f.accepted

Silent(sc) ==
    /\ sc.connect = "ok"
    /\ \/ sc.stream = <<>> /\ sc.answer = <<>>
       \/ sc.stream # <<>> /\ Head(sc.stream).d >= PastBothTimeouts

\* C20: a relay that accepts the connection and sends no frame within the
\* response and verification windows gets: no acknowledgement recorded
\* (published false with ok_message None), verified false, error None; a relay
\* that rejects with an OK false never gets that outcome.
C20_SilentIsNotAnError ==
    \A i \in 1..Len(results) :
        /\ Silent(run.scripts[i]) =>
              results[i] = [NewRelayResult(relays[i]) EXCEPT !.connected = TRUE]
        /\ results[i].error[1] = "Relay rejected" =>
              /\ results[i].ok_message # "None"
              /\ results[i] # [NewRelayResult(relays[i]) EXCEPT !.connected = TRUE]
        /\ Silent(run.scripts[i]) =>
              /\ results[i].ok_message = "None"
              /\ ~results[i].published /\ ~results[i].verified
              /\ results[i].error = NoError

C20_Witness ==
    \E i, j \in 1..Len(results) :
        /\ Silent(run.scripts[i]) /\ run.scripts[i].stream # <<>>
        /\ Silent(run.scripts[j]) /\ run.scripts[j].stream = <<>>

----------------------------------------------------------------------------
(* Claims about the relay queries, checked under SpecFetch *)

\* frame k of what relay i sent is a record the query takes as its result
Matches(i, k) ==
    LET f == run.scripts[i].answer[k].f IN
        /\ run.scripts[i].answer[k].d = 0
        /\ f.type = "EVENT"
        /\ f.sub = run.out[i]
        /\ run.query = "profile_badges" => f.ev.kind = ProfileBadgesKind
        /\ run.query = "definition" => f.ev # NoEvent

\* frame k ends the reading of relay i without a result: end of stored events,
\* a read error, a silence longer than the read timeout, an empty payload
EndsRelay(i, k) ==
    LET f == run.scripts[i].answer[k].f IN
        \/ run.scripts[i].answer[k].d > 0
        \/ f.type = "conn_closed"
        \/ f.type = "EOSE" /\ f.sub = run.out[i]
        \/ run.query = "definition" /\ f.type = "EVENT" /\ f.sub = run.out[i] /\ f.ev = NoEvent

\* the frames of relay i that hold its result: the first matching record, with
\* nothing before it that ended the reading
YieldAt(i) ==
    {k \in 1..Len(run.scripts[i].answer) :
        /\ run.scripts[i].connect = "ok"
        /\ Matches(i, k)
        /\ \A j \in 1..(k - 1) : ~Matches(i, j) /\ ~EndsRelay(i, j)}

Yields(i) == YieldAt(i) # {}

Contacted == 1..Len(run.scripts)

FailsAt(i) ==
    \/ run.scripts[i].connect # "ok"
    \/ \E k \in 1..Len(run.scripts[i].answer) :
            /\ run.scripts[i].answer[k].f.type = "conn_closed"
            /\ \A j \in 1..(k - 1) : ~Matches(i, j) /\ ~EndsRelay(i, j)

\* C22: a relay that fails counts as a relay without a record and the next one
\* is asked; the query returns none exactly when every relay was asked and
\* none yielded a record, and accept_badge then goes on to the merge with no
\* existing pairs.
C22_NoneIffNoRelayYields ==
    run.query # "" =>
        /\ pc \in {"fetch_loop", "fetch_returned", "merge", "recover"}
        /\ pc = "fetch_returned" =>
            (run.fetched = NoEvent <=>
                /\ Len(run.scripts) = Len(relays)
                /\ \A i \in Contacted : ~Yields(i))
        /\ pc = "fetch_returned" =>
            \A i \in Contacted : FailsAt(i) => (run.fetched # NoEvent \/ Len(run.scripts) = Len(relays))
        /\ (pc \in {"merge", "recover"} /\ run.fetched = NoEvent) =>
            (pc = "merge" /\ run.existing = <<>>)

C22_Witness ==
    /\ pc = "fetch_returned"
    /\ Len(run.scripts) = 2
    /\ FailsAt(1)
    /\ run.scripts[1].connect # "ok"
    /\ run.fetched = RecordAt(relays[2])

----------------------------------------------------------------------------
(* Claims about one relay's session, checked under SpecSession *)

SessionOver == pc = "session_done"
Sent == run.scripts[1].stream
Answered == run.scripts[1].answer
Outcome == results[1]

\* frame k after the EVENT frame does not reach the response loop: it comes
\* after the read timed out, or the read fails
NotRead(k) == Sent[k].d >= ResponseRecvTimeout \/ Sent[k].f.type = "conn_closed"

\* a negative OK for the event published
IsNack(k) ==
    Sent[k].f.type = "OK" /\ Sent[k].f.id = EventId(run.event) /\ ~Sent[k].f.accepted

IsClosed(k) == Sent[k].f.type = "CLOSED"

\* the frames the response window takes in: those up to and with the first
\* negative OK or CLOSED, or before the first that is not read
BreakPoints == {k \in 1..Len(Sent) : NotRead(k) \/ IsNack(k) \/ IsClosed(k)}

WindowTaken ==
    IF BreakPoints = {} THEN Len(Sent)
    ELSE LET k == CHOOSE b \in BreakPoints : \A c \in BreakPoints : b <= c IN
         IF NotRead(k) THEN k - 1 ELSE k

\* what is read once the REQ was sent
ReadAfterReq == SubSeq(Sent, WindowTaken + 1, Len(Sent)) \o Answered

\* C26: verified is true only if the REQ went out and, among the frames read
\* after it, there is an EVENT frame with the REQ's subscription id and a
\* record with the id of the event published.
C26_VerifiedOnlyOnMatchingRecord ==
    (SessionOver /\ Outcome.verified) =>
        /\ run.out[1] = <<"EVENT", "REQ">>
        /\ \E k \in 1..Len(ReadAfterReq) :
            /\ ReadAfterReq[k].f.type = "EVENT"
            /\ ReadAfterReq[k].f.sub = VerifySub(run.event)
            /\ EventId(ReadAfterReq[k].f.ev) = EventId(run.event)

C26_Witness ==
    /\ SessionOver
    /\ Outcome.verified
    /\ Len(Answered) = 2
    /\ Answered[1].f.sub = OtherSub

IsNotice(it) == it.f.type = "NOTICE"

\* the messages of the NOTICE frames of a sequence of frames, in order
NoticesOf(frames) ==
    LET sel == SelectSeq(frames, IsNotice) IN [i \in 1..Len(sel) |-> sel[i].f.msg]

\* C27: a negative OK for the event ends the response window: published,
\* ok_message and notice_messages are what they were at that frame, whatever
\* arrives after it.
C27_NackEndsWindow ==
    (SessionOver /\ run.scripts[1].connect = "ok" /\ WindowTaken > 0 /\ IsNack(WindowTaken)) =>
        /\ ~Outcome.published
        /\ Outcome.ok_message = Sent[WindowTaken].f.msg
        /\ Outcome.notice_messages = NoticesOf(SubSeq(Sent, 1, WindowTaken - 1))

C27_Witness ==
    /\ SessionOver
    /\ Len(Sent) = 3
    /\ IsNack(1)
    /\ Sent[2].f.type = "OK" /\ Sent[2].f.id = EventId(run.event) /\ Sent[2].f.accepted
    /\ Sent[2].d = 0
    /\ IsNotice(Sent[3])
    /\ ~Outcome.published

\* C28: a CLOSED frame in the response window is final for the relay: its reason
\* is the outcome's error and nothing read after it changes the outcome.
C28_ClosedIsTerminal ==
    (SessionOver /\ run.scripts[1].connect = "ok" /\ WindowTaken > 0 /\ IsClosed(WindowTaken)) =>
        /\ Outcome.error = <<"Connection closed", Sent[WindowTaken].f.msg>>
        /\ ~Outcome.verified

\* C29: when the connection cannot be opened the outcome has an error,
\* connected, published and verified are false, and neither the EVENT frame nor
\* the REQ is sent.
C29_NoConnectionNothingSent ==
    (SessionOver /\ run.scripts[1].connect # "ok") =>
        /\ Outcome.error # NoError
        /\ ~Outcome.connected
        /\ ~Outcome.published
        /\ ~Outcome.verified
        /\ run.out[1] = <<>>

C29_Witness ==
    /\ SessionOver
    /\ run.scripts[1].connect = "refused"
    /\ Outcome.error[1] = "Unexpected error"

\* the OK frames for the event among those the response window takes in
AcksTaken ==
    {k \in 1..WindowTaken : Sent[k].f.type = "OK" /\ Sent[k].f.id = EventId(run.event)}

\* C30: notice_messages is the NOTICE frames the response window took in, in
\* the order they came, and an OK that comes after a NOTICE still sets published
\* and ok_message.
C30_NoticesKeptInOrder ==
    (SessionOver /\ run.scripts[1].connect = "ok") =>
        /\ Outcome.notice_messages = NoticesOf(SubSeq(Sent, 1, WindowTaken))
        /\ AcksTaken # {} =>
            LET k == CHOOSE a \in AcksTaken : \A b \in AcksTaken : b <= a IN
                /\ Outcome.published = Sent[k].f.accepted
                /\ Outcome.ok_message = Sent[k].f.msg
        /\ AcksTaken = {} => ~Outcome.published

C30_Witness ==
    /\ SessionOver
    /\ Outcome.notice_messages = <<"restricted", "rate-limited">>
    /\ Len(Sent) = 3
    /\ Sent[3].f.type = "OK"
    /\ Outcome.published

----------------------------------------------------------------------------
(* Claims about the read loops, checked under SpecWindow *)

Deadline(window) == IF window = "responses" THEN ResponseWindow ELSE VerifyWindow
ReadTimeout(window) == IF window = "responses" THEN ResponseRecvTimeout ELSE VerifyRecvTimeout

----------------------------------------------------------------------------
(* Claims about get_summary, checked under SpecSummary *)

\* the relays of the call whose behaviour satisfies Test
CountScripts(Test(_)) == Cardinality({i \in 1..Len(run.scripts) : Test(run.scripts[i])})

Opens(sc) == sc.connect = "ok"

\* the relay sends a positive OK for the event and no negative one after it
AcksLast(sc) ==
    /\ sc.connect = "ok"
    /\ sc.stream # <<>>
    /\ sc.stream[Len(sc.stream)].f.type = "OK"
    /\ sc.stream[Len(sc.stream)].f.accepted

\* the relay answers the REQ with the event
Returns(sc) ==
    /\ sc.connect = "ok"
    /\ \E k \in 1..Len(sc.answer) : sc.answer[k].f.type = "EVENT"

\* C32: after a publish_event call get_summary reports total = the number of
\* relays of that call, and connected, published and verified = the number of
\* that call's relays that were connected to, acknowledged the event, returned
\* it; verified <= connected <= total and published <= connected. Results of
\* an earlier call are not counted.
C32_SummaryCountsThisCall ==
    pc = "summary_done" =>
        /\ mres.total = Len(relays)
        /\ mres.connected = CountScripts(Opens)
        /\ mres.published = CountScripts(AcksLast)
        /\ mres.verified = CountScripts(Returns)
        /\ mres.verified <= mres.connected
        /\ mres.published <= mres.connected
        /\ mres.connected <= mres.total

C32_Witness ==
    /\ pc = "summary_done"
    /\ ops = 2
    /\ Len(relays) = 1
    /\ mres.total = 1
    /\ mres.verified = 1

----------------------------------------------------------------------------
(* Claims about cleanup_old_backups among other processes, checked under
   SpecPrune *)

\* C33: when another process deletes a snapshot between the listing and the
\* deletion, cleanup_old_backups still deletes every other surplus snapshot:
\* at most max_backups snapshots remain when it returns.
C33_PruneToleratesDisappearance ==
    pc = "prune_done" => Cardinality(store) <= MaxBackups

----------------------------------------------------------------------------
(* Claims about concurrent accept_badge processes, checked under SpecRace *)

PairsOfEvent(ev) == PairSet(ParseProfileBadgesPairs(ev.tags).pairs)

\* C34: a process that comes to the publish step sends the merge of the record
\* it fetched with its own pair, whatever the relay holds by then: nothing
\* compares the two. (The witness is the lost update: the record published
\* last, now on the relay, omits the pair the other process published before.)
C34_PublishesFromStaleFetch ==
    \A p \in Procs :
        /\ pc[p] = "publish" =>
            PairsOfEvent(run[p].event) = PairSet(run[p].existing) \cup {run[p].newPair}
        /\ (pc[p] = "done" /\ run[p].event # NoEvent) =>
            /\ run[p].published
            /\ \E i \in 1..Len(wlog) : wlog[i].proc = p /\ wlog[i].event = run[p].event

C34_Witness ==
    /\ \A p \in Procs : pc[p] = "done" /\ run[p].status = "success"
    /\ Len(wlog) = 2
    /\ relayRec[TheRelay] = wlog[2].event
    /\ PairOf(wlog[1].proc) \in PairsOfEvent(wlog[1].event)
    /\ PairOf(wlog[1].proc) \notin PairsOfEvent(relayRec[TheRelay])

----------------------------------------------------------------------------
(* Further claims about merge_badge_pairs, checked under SpecMerge *)

FirstAt(p, all) == CHOOSE i \in 1..Len(all) : all[i] = p /\ \A j \in 1..(i - 1) : all[j] # p

\* out holds the pairs of all, each once, in the order they first come in all
IsFirstSeenOf(out, all) ==
    /\ NoDup(out)
    /\ PairSet(out) = PairSet(all)
    /\ \A i, j \in 1..Len(out) : i < j => FirstAt(out[i], all) < FirstAt(out[j], all)

\* the lists the merge may start from: the existing pairs passed in or, when
\* one of them is invalid, the pairs of a snapshot, or none
StartLists ==
    IF AllValid(mE) THEN {mE}
    ELSE {<<>>} \cup {f.pairs : f \in mres.before}

\* C35: when merge_badge_pairs reports success the list returned has no pair
\* twice, every pair in it is valid, the new pair is in it, and the pairs come
\* in first-seen order of the (possibly recovered) existing list followed by
\* the new pair.
C35_SuccessIsCleanAndOrdered ==
    (mres.called /\ mres.ok) =>
        /\ NoDup(mres.pairs)
        /\ AllValid(mres.pairs)
        /\ Occurs(mP, mres.pairs)
        /\ \E X \in StartLists : IsFirstSeenOf(mres.pairs, Append(X, mP))

C35_Witness ==
    /\ mres.called /\ mres.ok
    /\ ~NoDup(mE)
    /\ Occurs(mP, mE)
    /\ Len(mres.pairs) = 2

\* C36: when the new pair is invalid and the existing pairs are all valid,
\* merge_badge_pairs fails and leaves the Backup Store as it was: no snapshot
\* is written, changed or deleted.
C36_InvalidNewLeavesStore ==
    (mres.called /\ AllValid(mE) /\ ~IsValid(mP)) =>
        (~mres.ok /\ store = mres.before)

C36_Witness ==
    /\ mres.called
    /\ Len(mE) >= 2 /\ AllValid(mE)
    /\ ~IsValid(mP)
    /\ mres.before # {}
    /\ store = mres.before

----------------------------------------------------------------------------
(* Claims about the record encoding, checked under SpecRoundTrip *)

\* C37: parse_profile_badges_pairs applied to the tags that
\* create_merged_profile_badges_event built of a list of well-formed pairs
\* returns that list: the same pairs in the same order, whatever the relay list.
C37_EncodingRoundTrip ==
    pc = "decoded" => (mres.ok /\ mres.pairs = mE)

C37_Witness ==
    /\ pc = "decoded"
    /\ Len(mE) = 3 /\ mE[1] = mE[3] /\ mE[1] # mE[2]
    /\ Len(relays) = 2
    /\ mres.pairs = mE

----------------------------------------------------------------------------
(* Claims about publish_definition_if_missing, checked under SpecDefinition *)

\* call i left the definition in the cache
CachedBy(i) == wlog[i].status \in {"exists", "published"}

\* call j is the first call after call i for the same issuer and identifier
NextCallFor(i, j) ==
    /\ i < j
    /\ wlog[j].key = wlog[i].key
    /\ \A k \in (i + 1)..(j - 1) : wlog[k].key # wlog[i].key

\* every cache entry was put there by a call whose relay query returned the
\* record, or whose publish at least one relay verified
CachedOnlyWhenSeen ==
    \A e \in shown : \E i \in 1..Len(wlog) :
        /\ wlog[i].key = e.key
        /\ \/ wlog[i].found # NoEvent /\ e.event = wlog[i].found
           \/ wlog[i].verified > 0 /\ e.event = wlog[i].event

\* once a definition is cached, every later call for it returns exists and
\* sends no frame
CachedCallsAreSilent ==
    \A i, j \in 1..Len(wlog) :
        (i < j /\ wlog[j].key = wlog[i].key /\ CachedBy(i))
            => (wlog[j].status = "exists" /\ wlog[j].reqs = 0 /\ wlog[j].events = 0)

\* an unverified publish leaves no cache entry behind
UnverifiedNotCached ==
    \A i \in 1..Len(wlog) :
        (/\ wlog[i].status = "published_unverified"
         /\ pc = "def_idle"
         /\ \A j \in (i + 1)..Len(wlog) : wlog[j].key # wlog[i].key)
            => ~InDb(shown, wlog[i].key)

\* C38 as stated: a definition is cached only if a relay query returned a
\* record for it or a relay verified the publish; a cached definition is
\* answered with exists and without a frame; and the call after an unverified
\* publish publishes the definition again.
C38_UnverifiedIsRepublished_Original ==
    /\ CachedOnlyWhenSeen
    /\ CachedCallsAreSilent
    /\ UnverifiedNotCached
    /\ \A i, j \in 1..Len(wlog) :
        (wlog[i].status = "published_unverified" /\ NextCallFor(i, j))
            => wlog[j].status \in {"published", "published_unverified"}

\* C38: a definition is cached only if a relay query returned a record for it
\* or a relay verified the publish; a cached definition is answered with exists
\* and without a frame; an unverified publish is not cached, so the next call
\* for it is not answered from the cache: it asks the relays again, and
\* publishes again unless a relay now returns a record.
C38_CacheFollowsRelays ==
    /\ CachedOnlyWhenSeen
    /\ CachedCallsAreSilent
    /\ UnverifiedNotCached
    /\ \A i, j \in 1..Len(wlog) :
        (wlog[i].status = "published_unverified" /\ NextCallFor(i, j))
            => /\ ~wlog[j].cached
               /\ wlog[j].found = NoEvent
                    => wlog[j].status \in {"published", "published_unverified"}
               /\ wlog[j].found # NoEvent => wlog[j].status = "exists"

\* an unverified publish left nothing in the cache; the next call for the same
\* definition asked the relays, found nothing, published again, and a relay
\* verified it, so the definition is cached now
C38_Witness ==
    /\ Len(wlog) = 2
    /\ pc = "def_idle"
    /\ wlog[1].key = wlog[2].key
    /\ wlog[1].status = "published_unverified"
    /\ wlog[1].events > 0
    /\ ~wlog[2].cached
    /\ wlog[2].reqs > 0
    /\ wlog[2].found = NoEvent
    /\ wlog[2].status = "published"
    /\ InDb(shown, wlog[2].key)
    /\ DbGet(shown, wlog[2].key) = wlog[2].event

----------------------------------------------------------------------------
(* Claims about recovery with several owners, checked under SpecOwners *)

\* the pairs of the snapshots in st that carry the owner key
PairsKeptFor(owner, st) ==
    UNION {{f.pairs[i] : i \in 1..Len(f.pairs)} : f \in {g \in st : g.owner = owner}}

\* C39: the pairs that load_latest_backup hands to merge_badge_pairs or to the
\* recovery path of accept_badge come from a snapshot whose recorded owner key
\* is the key of the manager that recovers: after a call of the manager made
\* for Owner, every pair of its result is the new pair, a pair it was called
\* with, or a pair of a snapshot of Owner in the store the call found.
C39_RecoveryStaysWithOwner ==
    (pc \in {"owner_merged", "owner_recovered"})
        => \A i \in 1..Len(mres.pairs) :
            \/ mres.pairs[i] \in PairsKeptFor(Owner, shown)
            \/ pc = "owner_merged" /\ mres.pairs[i] = mP
            \/ pc = "owner_merged" /\ \E j \in 1..Len(mE) : mres.pairs[i] = mE[j]

----------------------------------------------------------------------------
(* Claims about whose record the fetch returns, checked under SpecFetch *)

\* the record carries the discriminator of the profile display record
HasDTag(ev) == \E i \in 1..Len(ev.tags) : ev.tags[i] = DTag

\* C40: the record accept_badge takes as the owner's existing set is authored
\* by the owner and carries the profile-display discriminator: a record frame
\* with the right subscription id but another author key or another
\* discriminator is never what fetch_existing_profile_badges returned.
C40_ExistingIsOwnersRecord ==
    (/\ run.query = "profile_badges"
     /\ pc \in {"fetch_returned", "merge", "recover"}
     /\ run.fetched # NoEvent)
        => (run.fetched.pubkey = Owner /\ HasDTag(run.fetched))

====
